---- MODULE Spec2Model ----
(***************************************************************************)
(* The tamper-evident audit ledger of src/src/agents/audit_orchestrator.py *)
(* (class AuditOrchestrator): the sequence counter, the hash chain, the    *)
(* signatures, the ledger file and the in-memory cache, with the handlers  *)
(* that read and write them.                                               *)
(*                                                                         *)
(* Abstractions, all stated here:                                          *)
(*  - SHA-256 is collision-free: the digest of a text is modelled by the   *)
(*    text itself, wrapped in [sha |-> text];                              *)
(*  - an RSA-PSS signature is the pair (signed hash, signing key); only    *)
(*    the holder of the key produces it, anything else is "forged";        *)
(*  - a timestamp is an integer tick of the wall clock, and the clock      *)
(*    advances by one tick with every entry that is created;               *)
(*  - uuid4 never repeats: log ids are 1, 2, 3, ...;                       *)
(*  - a line of the file is kept in parsed form (what json.loads gives),   *)
(*    or as "garbage" when json.loads raises JSONDecodeError on it.        *)
(***************************************************************************)
EXTENDS Integers, Sequences, FiniteSets, TLC

VARIABLES
  file,              \* audit_trail.jsonl: its lines, in file order
  file_nl,           \* TRUE when the last byte of the file is a newline
  audit_logs,        \* self.audit_logs, the in-memory cache (Python dicts)
  sequence_counter,  \* self.sequence_counter
  key_id,            \* the keypair held by self.private_key / self.public_key
  now,               \* the wall clock (datetime.utcnow(), time.time())
  uuid_count,        \* number of uuid4 values drawn so far
  resp,              \* what the last handler returned
  logged,            \* history: the successful log_action calls of this instance
  acked,             \* history: file index of every entry log_action acknowledged
  mutated,           \* history: <<file index, field, line before>> of every external mutation
  restarts,          \* history: number of re-instantiations
  foreign_writes,    \* history: number of lines appended by other components
  threads,           \* the log_action calls in progress: position and locals of each thread
  key_files,         \* keys/audit_private_key.pem and keys/audit_public_key.pem
  router,            \* OrchestrationRouter: orchestrators, fallback_handlers, global_fallback
  handler_calls      \* history: the handlers the last send_message called, in order

vars == <<file, file_nl, audit_logs, sequence_counter, key_id, now, uuid_count,
          resp, logged, acked, mutated, restarts, foreign_writes, threads, key_files,
          router, handler_calls>>

ledger == <<file, file_nl, audit_logs, sequence_counter, key_id>>

(***************************************************************************)
(* Bounds of the model.                                                    *)
(***************************************************************************)
MaxCreated == 3        \* entries created (calls of _create_log_entry) under Spec
MaxVerifyCreated == 3  \* entries created under SpecVerify
MaxRestarts == 1       \* re-instantiations over the same file
MaxTamper == 1         \* external mutations of a persisted line
MaxForeign == 1        \* lines appended by other components
MaxRangeCreated == 11  \* entries created under SpecRange
MaxComplianceCreated == 2  \* entries created under SpecCompliance
MaxQueryCreated == 3   \* entries created under SpecQuery
MaxPurgeCreated == 4   \* entries created under SpecPurge
MaxTimeJumps == 1      \* times the clock is moved past the retention periods
MaxThreads == 2        \* threads that call log_action on one instance
MaxConcurrentCreated == 3  \* entries created under SpecConcurrent

(***************************************************************************)
(* Program constants.                                                      *)
(***************************************************************************)
max_cached_logs == 1000
DetailsLimit == 10

\* int(time.time() * 1000) at clock tick t: the epoch lies far above any count
EpochMs(t) == 1000 + t

(***************************************************************************)
(* Python values.                                                          *)
(***************************************************************************)
Absent == [absent |-> TRUE]       \* the key is not in the dict
None == [none |-> TRUE]           \* Python None, JSON null
EmptySig == [empty |-> TRUE]      \* the empty string as a signature
Garbage == [kind |-> "garbage"]   \* a line json.loads cannot parse
Foreign == [kind |-> "foreign"]   \* a JSON object of BaseAgent._create_audit_entry

\* dict.get(key): None when the key is missing
Get(v) == IF v = Absent THEN None ELSE v

Min(a, b) == IF a < b THEN a ELSE b

\* a < b for two strings, given as sequences of character codes
LexLess(a, b) ==
  \E i \in 1..(Min(Len(a), Len(b)) + 1) :
     /\ \A j \in 1..(i - 1) : a[j] = b[j]
     /\ \/ i > Len(a) /\ i <= Len(b)
        \/ i <= Len(a) /\ i <= Len(b) /\ a[i] < b[i]

\* str(n) of a non-negative int, as the sequence of its digits
RECURSIVE Digits(_)
Digits(n) == IF n < 10 THEN <<n>> ELSE Append(Digits(n \div 10), n % 10)

\* dict keys: an int key and a str key; s is the text json.dumps writes for it
IntKey(n) == [t |-> "int", s |-> Digits(n)]
StrKey(s) == [t |-> "str", s |-> s]

\* Python's a < b on two dict keys of the same type
KeyLess(a, b) ==
  IF a.t = "int"
  THEN Len(a.s) < Len(b.s) \/ (Len(a.s) = Len(b.s) /\ LexLess(a.s, b.s))
  ELSE LexLess(a.s, b.s)

\* sorted(dict.items()) raises TypeError on keys of different types
Sortable(d) == \A i, j \in 1..Len(d) : d[i].k.t = d[j].k.t

(***************************************************************************)
(* JSON.  A dict is a sequence of [k |-> key, v |-> value] in insertion     *)
(* order; its text is a sequence of <<key text, value>>.  json.dumps turns  *)
(* every key into a string; json.loads returns string keys.                 *)
(***************************************************************************)
\* json.dumps(d): keys in insertion order
JsonDumpsDict(d) == [i \in 1..Len(d) |-> <<d[i].k.s, d[i].v>>]

\* json.dumps(d, sort_keys=True): the keys are sorted as Python values, then written
JsonDumpsDictSorted(d) ==
  LET s == SortSeq(d, LAMBDA x, y : KeyLess(x.k, y.k))
  IN  [i \in 1..Len(s) |-> <<s[i].k.s, s[i].v>>]

\* json.loads of a dict text: every key is a str
JsonLoadsDict(text) == [i \in 1..Len(text) |-> [k |-> StrKey(text[i][1]), v |-> text[i][2]]]

HashedFields == {"log_id", "timestamp", "sequence", "action_type", "actor_id",
                 "target", "result", "details", "context", "previous_hash"}

\* json.dumps(entry, sort_keys=True) of an entry without hash and signature
CanonicalText(e) ==
  [log_id |-> e.log_id, timestamp |-> e.timestamp, sequence |-> e.sequence,
   action_type |-> e.action_type, actor_id |-> e.actor_id, target |-> e.target,
   result |-> e.result, details |-> JsonDumpsDictSorted(e.details),
   context |-> e.context, previous_hash |-> e.previous_hash]

\* hashlib.sha256(text.encode()).hexdigest()
Sha256(text) == [sha |-> text]

\* the hash both _create_log_entry and the verifiers compute
ComputeHash(e) == Sha256(CanonicalText(e))

\* json.loads(json.dumps(entry)): the entry as a line of the file holds it
FileLine(e) == [e EXCEPT !.details = JsonLoadsDict(JsonDumpsDict(e.details))]

(***************************************************************************)
(* Signing.                                                                *)
(***************************************************************************)
\* OrchestrationRouter.__new__: nothing is registered
NewRouter == [orchestrators |-> {}, fallback_handlers |-> {}, global_fallback |-> FALSE]

\* a key file that cannot be parsed as PEM
Unloadable == [unloadable |-> TRUE]

\* the two key files as _generate_new_keys writes them for pair k
WrittenKeyFiles(k) == [private |-> [pem |-> k], public |-> [pem |-> k]]

\* _sign_hash: any exception of private_key.sign is swallowed and "" returned
SignHash(log_hash, sign_ok) ==
  IF sign_ok THEN [signed |-> log_hash, key |-> key_id] ELSE EmptySig

\* _verify_signature: never raises
VerifySignature(log_hash, signature) ==
  /\ "signed" \in DOMAIN signature
  /\ signature.signed = log_hash
  /\ signature.key = key_id

(***************************************************************************)
(* The ledger file.                                                        *)
(***************************************************************************)
FileExists == file # <<>>

\* f.write(text) in append mode.  Text written after an unterminated last
\* line continues that line, and the joined line is not valid JSON.
AppendedFile(line) ==
  IF file = <<>> \/ file_nl THEN Append(file, line)
  ELSE [file EXCEPT ![Len(file)] = Garbage]

\* _init_sequence_counter
InitSequenceCounter ==
  IF ~FileExists THEN 0
  ELSE LET last_log == file[Len(file)] IN
       CASE last_log.kind = "entry" -> last_log.sequence + 1
         [] last_log.kind = "foreign" -> 0 + 1
         [] OTHER -> EpochMs(now)

\* _create_log_entry, lines 616-638: the previous hash read back from the file
\* when the cache is empty.  The backward scan starts on the last byte: when
\* that byte is the newline ending the last line, readline() returns "" and
\* json.loads raises; when the file has no newline at all, the scan leaves
\* the position two bytes into the only line.
PreviousHashFromFile ==
  IF ~FileExists THEN Absent
  ELSE IF file_nl THEN Absent
  ELSE IF Len(file) = 1 THEN Absent
  ELSE LET last_log == file[Len(file)] IN
       CASE last_log.kind = "entry" -> last_log.hash
         [] last_log.kind = "foreign" -> None
         [] OTHER -> Absent

\* mutant of PreviousHash: the cache tail is ignored
PreviousHashFileOnly == PreviousHashFromFile

\* _create_log_entry, lines 611-638
PreviousHash ==
  IF audit_logs # <<>> THEN audit_logs[Len(audit_logs)].hash
  ELSE PreviousHashFromFile

\* _create_log_entry: the entry built from the arguments
CreateLogEntry(action_type, actor_id, target, result, details, sign_ok) ==
  LET content == [kind |-> "entry",
                  log_id |-> uuid_count + 1,
                  timestamp |-> now,
                  sequence |-> sequence_counter + 1,
                  action_type |-> action_type,
                  actor_id |-> actor_id,
                  target |-> target,
                  result |-> result,
                  details |-> details,
                  context |-> <<>>,
                  previous_hash |-> PreviousHash]
      log_hash == ComputeHash(content)
  IN  [kind |-> "entry",
       log_id |-> content.log_id,
       timestamp |-> content.timestamp,
       sequence |-> content.sequence,
       action_type |-> action_type,
       actor_id |-> actor_id,
       target |-> target,
       result |-> result,
       details |-> details,
       context |-> <<>>,
       previous_hash |-> content.previous_hash,
       hash |-> log_hash,
       signature |-> SignHash(log_hash, sign_ok)]

\* mutant of AddToCache: the trim keeps the head of the list
AddToCacheKeepingOldest(logs, e) ==
  LET added == Append(logs, e) IN
  IF Len(added) > max_cached_logs
  THEN SubSeq(added, 1, max_cached_logs)
  ELSE added

\* _add_to_cache
AddToCache(logs, e) ==
  LET added == Append(logs, e) IN
  IF Len(added) > max_cached_logs
  THEN SubSeq(added, Len(added) - max_cached_logs + 1, Len(added))
  ELSE added

(***************************************************************************)
(* Verification.                                                           *)
(***************************************************************************)
\* _verify_log_entry, lines 946-980: the checks on the entry that was found
VerifyFoundEntry(log_id, log_entry) ==
  IF log_entry.signature = EmptySig
  THEN [log_id |-> log_id, verified |-> FALSE,
        error |-> "Log entry has no signature", status |-> "error"]
  ELSE LET hash_matches == ComputeHash(log_entry) = log_entry.hash
           signature_valid == VerifySignature(log_entry.hash, log_entry.signature)
       IN  [log_id |-> log_id,
            timestamp |-> log_entry.timestamp,
            sequence |-> log_entry.sequence,
            hash_matches |-> hash_matches,
            signature_valid |-> signature_valid,
            verified |-> hash_matches /\ signature_valid,
            status |-> IF hash_matches /\ signature_valid THEN "success" ELSE "error"]

SearchError(log_id) ==
  [log_id |-> log_id, verified |-> FALSE,
   error |-> "Error searching for log entry", status |-> "error"]

NotFound(log_id) ==
  [log_id |-> log_id, verified |-> FALSE,
   error |-> "Log entry not found", status |-> "error"]

SetMin(S) == CHOOSE x \in S : \A y \in S : x <= y

\* _verify_log_entry: the cache is searched first, then the file line by line;
\* log["log_id"] raises KeyError on a JSON line without that key
VerifyLogEntry(log_id) ==
  LET hits == {i \in 1..Len(audit_logs) : audit_logs[i].log_id = log_id}
      stops == {i \in 1..Len(file) :
                  \/ file[i].kind = "foreign"
                  \/ file[i].kind = "entry" /\ file[i].log_id = log_id}
  IN  IF hits # {} THEN VerifyFoundEntry(log_id, audit_logs[SetMin(hits)])
      ELSE IF ~FileExists THEN SearchError(log_id)
      ELSE IF stops = {} THEN NotFound(log_id)
      ELSE IF file[SetMin(stops)].kind = "foreign" THEN SearchError(log_id)
      ELSE VerifyFoundEntry(log_id, file[SetMin(stops)])

\* a timestamp no datetime.fromisoformat accepts
BadTimestamp == -1

\* _verify_log_range, lines 1011-1016; start and end are <<>> (None) or <<t>>
InTimeRange(log, start, end) ==
  /\ ~(start # <<>> /\ log.timestamp < start[1])
  /\ ~(end # <<>> /\ log.timestamp > end[1])

\* one step of the stable sort: x goes after the entries of the sorted prefix
\* whose sequence is not greater
InsertBySequence(init, x) ==
  LET k == Cardinality({i \in 1..Len(init) : init[i].sequence <= x.sequence})
  IN  SubSeq(init, 1, k) \o <<x>> \o SubSeq(init, k + 1, Len(init))

\* logs.sort(key=lambda x: x.get("sequence", 0)): a stable sort.  The sorted
\* prefix is bound as a set element so that it is computed once.
RECURSIVE SortBySequence(_)
SortBySequence(logs) ==
  IF logs = <<>> THEN <<>>
  ELSE CHOOSE sorted \in {InsertBySequence(init, logs[Len(logs)]) :
                             init \in {SortBySequence(SubSeq(logs, 1, Len(logs) - 1))}} : TRUE

\* mutant of VerifyLoop: the loop stops at the first entry that fails
RECURSIVE VerifyLoopShortCircuit(_, _, _, _, _)
VerifyLoopShortCircuit(logs, i, verification_results, chain_valid, previous_hash) ==
  IF i > Len(logs) \/ ~chain_valid
  THEN [verification_results |-> verification_results, chain_valid |-> chain_valid]
  ELSE LET log == logs[i]
           hash_matches == ComputeHash(log) = log.hash
           signature_valid == VerifySignature(log.hash, log.signature)
           linked == previous_hash = None \/ Get(log.previous_hash) = previous_hash
       IN  VerifyLoopShortCircuit(logs, i + 1,
                                  Append(verification_results,
                                         [log_id |-> log.log_id,
                                          sequence |-> log.sequence,
                                          hash_matches |-> hash_matches,
                                          signature_valid |-> signature_valid,
                                          chain_valid |-> linked,
                                          verified |-> hash_matches /\ signature_valid /\ linked]),
                                  chain_valid /\ linked /\ hash_matches /\ signature_valid,
                                  log.hash)

\* _verify_log_range, lines 1032-1084: the loop over the sorted entries
RECURSIVE VerifyLoop(_, _, _, _, _)
VerifyLoop(logs, i, verification_results, chain_valid, previous_hash) ==
  IF i > Len(logs)
  THEN [verification_results |-> verification_results, chain_valid |-> chain_valid]
  ELSE LET log == logs[i] IN
       IF log.signature = EmptySig
       THEN VerifyLoop(logs, i + 1,
                       Append(verification_results,
                              [log_id |-> log.log_id, verified |-> FALSE,
                               error |-> "Log entry has no signature"]),
                       FALSE, previous_hash)
       ELSE LET hash_matches == ComputeHash(log) = log.hash
                signature_valid == VerifySignature(log.hash, log.signature)
                linked == previous_hash = None \/ Get(log.previous_hash) = previous_hash
            IN  VerifyLoop(logs, i + 1,
                           Append(verification_results,
                                  [log_id |-> log.log_id,
                                   sequence |-> log.sequence,
                                   hash_matches |-> hash_matches,
                                   signature_valid |-> signature_valid,
                                   chain_valid |-> linked,
                                   verified |-> hash_matches /\ signature_valid /\ linked]),
                           chain_valid /\ linked /\ hash_matches /\ signature_valid,
                           log.hash)

\* the entries of the file _verify_log_range loads: parsable lines in the range
RangeLogs(start, end) ==
  SelectSeq(file, LAMBDA l : l.kind = "entry" /\ InTimeRange(l, start, end))

\* verification_results[:10]
FirstResults(verification_results) ==
  SubSeq(verification_results, 1, Min(DetailsLimit, Len(verification_results)))

\* _verify_log_range.  "raised" stands for an exception leaving the method.
VerifyLogRange(start, end) ==
  LET load_error == [verified |-> FALSE, error |-> "Error loading logs", status |-> "error"]
      foreign == \E i \in 1..Len(file) : file[i].kind = "foreign"
      unparsed == \E i \in 1..Len(file) :
                     file[i].kind = "entry" /\ file[i].timestamp = BadTimestamp
  IN  IF ~FileExists \/ unparsed THEN load_error
      ELSE IF foreign /\ (start # <<>> \/ end # <<>>) THEN load_error
      ELSE IF foreign THEN [raised |-> "KeyError"]
      ELSE LET out == VerifyLoop(SortBySequence(RangeLogs(start, end)), 1, <<>>, TRUE, None)
               all_verified == \A i \in 1..Len(out.verification_results) :
                                  out.verification_results[i].verified
           IN  [logs_verified |-> Len(out.verification_results),
                chain_valid |-> out.chain_valid,
                all_verified |-> all_verified,
                verification_details |-> FirstResults(out.verification_results),
                status |-> IF out.chain_valid /\ all_verified THEN "success" ELSE "error"]

(***************************************************************************)
(* Requests.                                                               *)
(***************************************************************************)
\* details dicts: empty; str keys "b", "a"; int keys 9, 10; an int and a str key
DetailsEmpty == <<>>
DetailsStrKeys == <<[k |-> StrKey(<<11>>), v |-> 1], [k |-> StrKey(<<10>>), v |-> 2]>>
DetailsIntKeys == <<[k |-> IntKey(9), v |-> 1], [k |-> IntKey(10), v |-> 2]>>
DetailsMixedKeys == <<[k |-> IntKey(1), v |-> 1], [k |-> StrKey(<<10>>), v |-> 2]>>

RequiredLogFields == {"action_type", "actor_id", "target"}

LogParams(fields, action_type, details) ==
  [fields |-> fields, action_type |-> action_type, actor_id |-> "user",
   target |-> "doc", details |-> details]

MissingTarget == LogParams({"action_type", "actor_id"}, "doc_parse", DetailsEmpty)

\* outcomes of f.write(json.dumps(log_entry) + "\n"):
\*   ok       the line and its newline are in the file
\*   error    open or write raised, nothing was written
\*   torn     write raised after a proper prefix of the JSON text was written
\*   cut      write raised after the JSON text, before the newline
WriteOutcomes == {"ok", "error", "torn", "cut"}

Response(op, arg, data) == [op |-> op, arg |-> arg, type |-> "response", data |-> data]
ErrorResponse(op, arg, code) == [op |-> op, arg |-> arg, type |-> "error", error_code |-> code]

(***************************************************************************)
(* Handlers.                                                               *)
(***************************************************************************)
\* _write_to_audit_trail
WriteToAuditTrail(log_entry, outcome) ==
  CASE outcome = "ok" -> file' = AppendedFile(FileLine(log_entry)) /\ file_nl' = TRUE
    [] outcome = "cut" -> file' = AppendedFile(FileLine(log_entry)) /\ file_nl' = FALSE
    [] outcome = "torn" -> file' = AppendedFile(Garbage) /\ file_nl' = FALSE
    [] OTHER -> UNCHANGED <<file, file_nl>>

\* mutant of ConsumeEntry: the incremented counter is not stored
ConsumeEntryCounterNotStored ==
  /\ sequence_counter' = sequence_counter
  /\ uuid_count' = uuid_count + 1
  /\ now' = now + 1

\* what every call of _create_log_entry consumes
ConsumeEntry ==
  /\ sequence_counter' = sequence_counter + 1
  /\ uuid_count' = uuid_count + 1
  /\ now' = now + 1

\* handle_log_action
LogAction(params, sign_ok, outcome) ==
  IF ~(RequiredLogFields \subseteq params.fields)
  THEN /\ resp' = ErrorResponse("log_action", "", "validation_error")
       /\ UNCHANGED <<ledger, now, uuid_count, logged, acked, mutated, restarts, foreign_writes, threads, key_files, router, handler_calls>>
  ELSE /\ ConsumeEntry
       /\ UNCHANGED <<key_id, mutated, restarts, foreign_writes, threads, key_files, router, handler_calls>>
       /\ IF ~Sortable(params.details)
          THEN \* json.dumps(log_entry, sort_keys=True) raises TypeError
               /\ resp' = ErrorResponse("log_action", "", "processing_error")
               /\ UNCHANGED <<file, file_nl, audit_logs, logged, acked>>
          ELSE LET log_entry == CreateLogEntry(params.action_type, params.actor_id,
                                               params.target, "unknown",
                                               params.details, sign_ok)
               IN  /\ WriteToAuditTrail(log_entry, outcome)
                   /\ IF outcome = "ok"
                      THEN /\ audit_logs' = AddToCache(audit_logs, log_entry)
                           /\ resp' = Response("log_action", "",
                                               [log_id |-> log_entry.log_id,
                                                timestamp |-> log_entry.timestamp,
                                                sequence |-> log_entry.sequence,
                                                status |-> "logged"])
                           /\ logged' = Append(logged, log_entry)
                           /\ acked' = acked \cup {log_entry.log_id}
                      ELSE /\ resp' = ErrorResponse("log_action", "", "processing_error")
                           /\ UNCHANGED <<audit_logs, logged, acked>>

\* handle_verify_audit_trail with a log_id
VerifyEntry(log_id) ==
  /\ resp' = Response("verify_entry", log_id, VerifyLogEntry(log_id))
  /\ UNCHANGED <<ledger, now, uuid_count, logged, acked, mutated, restarts, foreign_writes, threads, key_files, router, handler_calls>>

\* handle_verify_audit_trail without a log_id; end_time defaults to the current time
VerifyRange(start) ==
  LET result == VerifyLogRange(start, <<now>>) IN
  /\ resp' = IF "raised" \in DOMAIN result
             THEN ErrorResponse("verify_range", start, "processing_error")
             ELSE Response("verify_range", start, result)
  /\ UNCHANGED <<ledger, now, uuid_count, logged, acked, mutated, restarts, foreign_writes, threads, key_files, router, handler_calls>>

\* the clock: one tick is half a second, so that a tick falls either on a
\* whole second (microsecond = 0) or inside one
TicksPerSecond == 2
TicksPerDay == 86400 * TicksPerSecond

\* datetime.utcnow().isoformat() + "Z" as a sort key: the text of the whole
\* seconds, then the rest of the string.  isoformat() leaves the fraction out
\* when the microsecond is 0, and "Z" sorts after ".", so within one second
\* the text written on the whole second is the greatest.
TimestampText(t) == <<t \div TicksPerSecond, IF t % TicksPerSecond = 0 THEN 1 ELSE 0>>

\* comparison of two timestamp strings
TextLess(a, b) == a[1] < b[1] \/ (a[1] = b[1] /\ a[2] < b[2])

\* a filter: the dot path split into its parts, and the value asked for
Filter(path, value) == [path |-> path, value |-> value]

\* the key of a details dict named by a part of a filter path
PartKey(part) == StrKey(<<IF part = "compliance_type" THEN 12 ELSE 13>>)

DetailsGdpr == <<[k |-> PartKey("compliance_type"), v |-> "gdpr"]>>

\* _log_matches_filters, lines 827-851: one filter.  Top-level fields are
\* those of the JSON object; the nested fields modelled are those of details.
FilterMatches(log, f) ==
  IF Len(f.path) > 1
  THEN /\ f.path[1] = "details"
       /\ "details" \in DOMAIN log
       /\ \E i \in 1..Len(log.details) :
            log.details[i].k = PartKey(f.path[2]) /\ log.details[i].v = f.value
  ELSE /\ f.path[1] \in DOMAIN log
       /\ log[f.path[1]] = f.value

\* _log_matches_filters for a parsed entry (its timestamp carries "Z")
LogMatchesFilters(log, filters, start, end) ==
  /\ start # <<>> => ~(log.timestamp < start[1])
  /\ end # <<>> => ~(log.timestamp > end[1])
  /\ \A f \in filters : FilterMatches(log, f)

\* what _log_matches_filters does with a line of the file:
\*   "match" / "skip", or "raise" when the comparison of the timestamp fails
\*   (a timestamp that is no ISO text, or a naive one against an aware bound)
LineMatches(line, filters, start, end) ==
  CASE line.kind = "foreign" ->
         (IF start # <<>> \/ end # <<>> THEN "raise"
          ELSE IF filters = {} THEN "match" ELSE "skip")
    [] line.timestamp = BadTimestamp /\ (start # <<>> \/ end # <<>>) -> "raise"
    [] OTHER -> IF LogMatchesFilters(line, filters, start, end) THEN "match" ELSE "skip"

\* _load_logs_from_file: lines are read oldest first, unparsable lines are
\* skipped, the loop ends at `limit` matches, and any other exception ends
\* the loop with what was collected
RECURSIVE LoadLogsFromFile(_, _, _, _, _, _)
LoadLogsFromFile(filters, start, end, limit, i, matching_logs) ==
  IF i > Len(file) THEN matching_logs
  ELSE IF file[i].kind = "garbage"
       THEN LoadLogsFromFile(filters, start, end, limit, i + 1, matching_logs)
  ELSE LET m == LineMatches(file[i], filters, start, end) IN
       IF m = "raise" THEN matching_logs
       ELSE IF m = "skip"
            THEN LoadLogsFromFile(filters, start, end, limit, i + 1, matching_logs)
       ELSE IF Len(matching_logs) + 1 >= limit THEN Append(matching_logs, file[i])
       ELSE LoadLogsFromFile(filters, start, end, limit, i + 1,
                             Append(matching_logs, file[i]))

\* _query_logs, lines 785-790: the file entries whose log_id is not yet known
RECURSIVE MergeLogs(_, _, _)
MergeLogs(matching_logs, file_logs, i) ==
  IF i > Len(file_logs) THEN matching_logs
  ELSE IF \E k \in 1..Len(matching_logs) : matching_logs[k].log_id = file_logs[i].log_id
       THEN MergeLogs(matching_logs, file_logs, i + 1)
  ELSE MergeLogs(Append(matching_logs, file_logs[i]), file_logs, i + 1)

\* matching_logs.sort(key=timestamp, reverse=True): stable, greatest text first
RECURSIVE SortByTimestampDesc(_)
SortByTimestampDesc(logs) ==
  IF Len(logs) <= 1 THEN logs
  ELSE LET rest == SortByTimestampDesc(SubSeq(logs, 1, Len(logs) - 1))
           x == logs[Len(logs)]
           \* x goes after every element that is not smaller than it
           before == {k \in 1..Len(rest) :
                        ~TextLess(TimestampText(rest[k].timestamp), TimestampText(x.timestamp))}
           pos == IF before = {} THEN 0 ELSE CHOOSE k \in before : \A j \in before : j <= k
       IN  SubSeq(rest, 1, pos) \o <<x>> \o SubSeq(rest, pos + 1, Len(rest))

\* the entries of a sequence that satisfy the filters and the time range
SelectMatching(logs, filters, start, end) ==
  SelectSeq(logs, LAMBDA log : LogMatchesFilters(log, filters, start, end))

\* _query_logs
QueryLogs(filters, start, end, limit, offset) ==
  LET cached == SelectMatching(audit_logs, filters, start, end)
      read_file == \/ Len(cached) < limit + offset
                   \/ /\ start # <<>>
                      /\ audit_logs # <<>>
                      /\ audit_logs[1].timestamp > start[1]
      file_logs == IF read_file
                   THEN LoadLogsFromFile(filters, start, end, limit + offset, 1, <<>>)
                   ELSE <<>>
  IN  IF \E i \in 1..Len(file_logs) : file_logs[i].kind = "foreign"
      THEN [raised |-> "KeyError"]
      ELSE LET matching_logs == SortByTimestampDesc(MergeLogs(cached, file_logs, 1))
               n == Len(matching_logs)
           IN  [logs |-> IF offset < n
                         THEN SubSeq(matching_logs, offset + 1, Min(offset + limit, n))
                         ELSE <<>>,
                count |-> IF offset < n THEN Min(offset + limit, n) - offset ELSE 0,
                total |-> n,
                has_more |-> n > offset + limit,
                status |-> "success"]

\* _load_compliance_rules: the rule sets, each rule with its checker and the
\* parameter the checker reads
ComplianceRules ==
  [gdpr |->
     [rules |-> <<[id |-> "data_minimization", check |-> "document_size_check", arg |-> 10],
                  [id |-> "pii_detection", check |-> "pii_pattern_match",
                   arg |-> {"ssn", "email", "phone"}],
                  [id |-> "consent_tracking", check |-> "metadata_field_exists",
                   arg |-> "consent"],
                  [id |-> "data_retention", check |-> "max_age_check", arg |-> 730]>>,
      severity_levels |-> <<[level |-> "high", ids |-> {"pii_detection"}],
                            [level |-> "medium", ids |-> {"consent_tracking", "data_retention"}],
                            [level |-> "low", ids |-> {"data_minimization"}]>>],
   hipaa |->
     [rules |-> <<[id |-> "phi_protection", check |-> "phi_pattern_match",
                   arg |-> {"medical", "diagnosis", "treatment"}],
                  [id |-> "access_controls", check |-> "auth_level_check", arg |-> "provider"],
                  [id |-> "audit_trail", check |-> "audit_completeness",
                   arg |-> {"access", "modify", "delete"}]>>,
      severity_levels |-> <<[level |-> "high", ids |-> {"phi_protection"}],
                            [level |-> "medium", ids |-> {"access_controls"}],
                            [level |-> "low", ids |-> {"audit_trail"}]>>],
   internal |->
     [rules |-> <<[id |-> "audit_signing", check |-> "signature_check", arg |-> 0],
                  [id |-> "log_sequence", check |-> "sequence_check", arg |-> 0]>>,
      severity_levels |-> <<[level |-> "critical", ids |-> {"audit_signing", "log_sequence"}]>>]]

ComplianceTypes == DOMAIN ComplianceRules

\* a document_date string datetime.fromisoformat rejects
InvalidDate == [invalid |-> TRUE]

\* check_params: document_size (<<>> when absent, else <<n>>),
\* detected_patterns (a set), metadata (the set of its keys), document_date
\* (Absent, InvalidDate, or a date [t, aware] with or without a UTC offset)
CheckParams(document_size, detected_patterns, metadata, document_date) ==
  [document_size |-> document_size, detected_patterns |-> detected_patterns,
   metadata |-> metadata, document_date |-> document_date]

DefaultCheckParams == CheckParams(<<>>, {}, {}, Absent)

\* _run_compliance_check, lines 1134-1139: the first severity level listing the rule
RECURSIVE SeverityOf(_, _, _)
SeverityOf(severity_levels, rule_id, i) ==
  IF i > Len(severity_levels) THEN "unknown"
  ELSE IF rule_id \in severity_levels[i].ids THEN severity_levels[i].level
  ELSE SeverityOf(severity_levels, rule_id, i + 1)

\* _run_compliance_check, lines 1141-1185: the checker of one rule.  A rule
\* whose check names no branch passes.  In max_age_check a date with a UTC
\* offset is subtracted from the naive utcnow(), which raises TypeError.
RunRule(rule, check_params) ==
  CASE rule.check = "data_minimization" ->
         [passed |-> (IF check_params.document_size = <<>> THEN 5
                      ELSE check_params.document_size[1]) <= rule.arg,
          raised |-> FALSE]
    [] rule.check = "pii_pattern_match" ->
         [passed |-> rule.arg \cap check_params.detected_patterns = {}, raised |-> FALSE]
    [] rule.check = "metadata_field_exists" ->
         [passed |-> rule.arg \in check_params.metadata, raised |-> FALSE]
    [] rule.check = "max_age_check" ->
         (IF check_params.document_date = Absent THEN [passed |-> FALSE, raised |-> FALSE]
          ELSE IF check_params.document_date = InvalidDate
               THEN [passed |-> FALSE, raised |-> FALSE]
          ELSE IF check_params.document_date.aware THEN [passed |-> FALSE, raised |-> TRUE]
          ELSE [passed |-> (now - check_params.document_date.t) \div TicksPerDay <= rule.arg,
                raised |-> FALSE])
    [] OTHER -> [passed |-> TRUE, raised |-> FALSE]

\* number of the checks of the given severity that failed
CountFailures(checks, severity) ==
  Cardinality({i \in 1..Len(checks) : ~checks[i].passed /\ checks[i].severity = severity})

\* _run_compliance_check
RunComplianceCheckResult(compliance_type, target_id, check_params) ==
  LET rule_set == ComplianceRules[compliance_type]
      rules == rule_set.rules
      outcome == [i \in 1..Len(rules) |-> RunRule(rules[i], check_params)]
      check_results == [i \in 1..Len(rules) |->
                          [rule_id |-> rules[i].id,
                           severity |-> SeverityOf(rule_set.severity_levels, rules[i].id, 1),
                           passed |-> outcome[i].passed]]
      all_passed == \A i \in 1..Len(rules) : check_results[i].passed
      critical_failures == CountFailures(check_results, "critical")
      high_failures == CountFailures(check_results, "high")
      medium_failures == CountFailures(check_results, "medium")
      overall_status ==
        IF all_passed THEN "compliant"
        ELSE IF critical_failures > 0 THEN "critical_violation"
        ELSE IF high_failures > 0 THEN "high_violation"
        ELSE IF medium_failures > 0 THEN "medium_violation"
        ELSE "low_violation"
  IN  IF \E i \in 1..Len(rules) : outcome[i].raised
      THEN [raised |-> "TypeError"]
      ELSE [compliance_type |-> compliance_type,
            target_id |-> target_id,
            checks |-> check_results,
            overall_status |-> overall_status,
            violations |->
              [critical |-> critical_failures,
               high |-> high_failures,
               medium |-> medium_failures,
               low |-> Len(check_results)
                       - (critical_failures + high_failures + medium_failures)
                       - (IF all_passed THEN Len(check_results) ELSE 0)],
            status |-> "success"]

\* mutant of RunComplianceCheck: the entry is created before the framework is looked up
RunComplianceCheckLoggedFirst(compliance_type, check_params) ==
  LET arg == [compliance_type |-> compliance_type, check_params |-> check_params] IN
  /\ ConsumeEntry
  /\ resp' = IF compliance_type \notin ComplianceTypes
             THEN ErrorResponse("run_compliance_check", arg, "validation_error")
             ELSE Response("run_compliance_check", arg,
                           RunComplianceCheckResult(compliance_type, "doc", check_params))
  /\ UNCHANGED <<file, file_nl, audit_logs, key_id, logged, acked, mutated,
                 restarts, foreign_writes, threads, key_files, router, handler_calls>>

\* handle_run_compliance_check: the entry is created and never written
RunComplianceCheck(compliance_type, check_params) ==
  LET arg == [compliance_type |-> compliance_type, check_params |-> check_params] IN
  IF compliance_type \notin ComplianceTypes
  THEN /\ resp' = ErrorResponse("run_compliance_check", arg, "validation_error")
       /\ UNCHANGED <<ledger, now, uuid_count, logged, acked, mutated, restarts, foreign_writes, threads, key_files, router, handler_calls>>
  ELSE LET result == RunComplianceCheckResult(compliance_type, "doc", check_params) IN
       IF "raised" \in DOMAIN result
       THEN /\ resp' = ErrorResponse("run_compliance_check", arg, "processing_error")
            /\ UNCHANGED <<ledger, now, uuid_count, logged, acked, mutated, restarts,
                           foreign_writes, threads, key_files, router, handler_calls>>
       ELSE /\ ConsumeEntry
            /\ resp' = Response("run_compliance_check", arg, result)
            /\ UNCHANGED <<file, file_nl, audit_logs, key_id, logged, acked, mutated,
                           restarts, foreign_writes, threads, key_files, router, handler_calls>>

\* _generate_compliance_report, lines 1249-1256: the named periods, in days
\* (custom periods are not modelled)
ReportPeriodDays ==
  [last_7_days |-> 7, last_30_days |-> 30, last_quarter |-> 90, last_year |-> 365]

\* the details handle_run_compliance_check passes to _create_log_entry, as
\* far as the report reads them
DetailsEvaluation(compliance_type, overall_status) ==
  <<[k |-> PartKey("compliance_type"), v |-> compliance_type],
    [k |-> PartKey("check_results"), v |-> [overall_status |-> overall_status]]>>

\* log.get("details", {}).get("check_results", {}).get("overall_status") == "compliant"
ReportsCompliant(log) ==
  \E i \in 1..Len(log.details) :
     /\ log.details[i].k = PartKey("check_results")
     /\ log.details[i].v.overall_status = "compliant"

\* _generate_compliance_report: the period, the query for the evaluation
\* entries of the framework and the summary counted from what it returns
GenerateComplianceReportResult(compliance_type, report_period) ==
  IF report_period \notin DOMAIN ReportPeriodDays
  THEN [compliance_type |-> compliance_type, report_period |-> report_period,
        status |-> "error"]
  ELSE LET start_time == now - ReportPeriodDays[report_period] * TicksPerDay
           end_time == now
           filters == {Filter(<<"action_type">>, "compliance_check"),
                       Filter(<<"details", "compliance_type">>, compliance_type)}
           log_results == QueryLogs(filters, <<start_time>>, <<end_time>>, 1000, 0)
       IN  IF "raised" \in DOMAIN log_results THEN log_results
           ELSE LET logs == log_results.logs IN
                [compliance_type |-> compliance_type,
                 report_period |-> report_period,
                 summary |-> [total_checks |-> Len(logs),
                              passed_checks |->
                                Cardinality({k \in 1..Len(logs) : ReportsCompliant(logs[k])})],
                 status |-> "success"]

\* handle_generate_compliance_report for a request with its required fields:
\* the compliance_report entry is created and never written
GenerateComplianceReportFor(compliance_type, report_period) ==
  LET arg == [compliance_type |-> compliance_type, report_period |-> report_period] IN
  IF compliance_type \notin ComplianceTypes
  THEN /\ resp' = ErrorResponse("generate_compliance_report", arg, "validation_error")
       /\ UNCHANGED <<ledger, now, uuid_count, logged, acked, mutated, restarts,
                      foreign_writes, threads, key_files, router, handler_calls>>
  ELSE LET result == GenerateComplianceReportResult(compliance_type, report_period) IN
       IF "raised" \in DOMAIN result
       THEN /\ resp' = ErrorResponse("generate_compliance_report", arg, "processing_error")
            /\ UNCHANGED <<ledger, now, uuid_count, logged, acked, mutated, restarts,
                           foreign_writes, threads, key_files, router, handler_calls>>
       ELSE /\ ConsumeEntry
            /\ resp' = Response("generate_compliance_report", arg, result)
            /\ UNCHANGED <<file, file_nl, audit_logs, key_id, logged, acked, mutated,
                           restarts, foreign_writes, threads, key_files, router, handler_calls>>

\* handle_generate_compliance_report for the period "last_30_days"
GenerateComplianceReport(compliance_type) ==
  GenerateComplianceReportFor(compliance_type, "last_30_days")

\* _init_audit_configuration: retention periods in days
RetentionPeriods ==
  [auth_logs |-> 90, document_logs |-> 365, system_logs |-> 30, compliance_logs |-> 730]

PurgeLogTypes == {"all", "auth", "document", "system", "compliance"}

\* _purge_expired_logs, lines 1385-1396
RetentionDays(log_type) ==
  CASE log_type = "all" -> Min(Min(RetentionPeriods.auth_logs, RetentionPeriods.document_logs),
                               Min(RetentionPeriods.system_logs, RetentionPeriods.compliance_logs))
    [] log_type = "auth" -> RetentionPeriods.auth_logs
    [] log_type = "document" -> RetentionPeriods.document_logs
    [] log_type = "system" -> RetentionPeriods.system_logs
    [] log_type = "compliance" -> RetentionPeriods.compliance_logs

\* _purge_expired_logs, lines 1419-1454: the count one category adds, a query
\* for the entries whose action_type equals the category's literal
CategoryCount(log_type, category, literal, cutoff) ==
  IF log_type = "all" \/ log_type = category
  THEN QueryLogs({Filter(<<"action_type">>, literal)}, <<>>, <<cutoff>>, 100, 0).count
  ELSE 0

\* _purge_expired_logs: no branch removes anything
PurgeExpiredLogsResult(log_type, dry_run) ==
  IF log_type \notin PurgeLogTypes
  THEN [log_type |-> log_type, status |-> "error"]
  ELSE LET retention_days == RetentionDays(log_type)
           cutoff == now - retention_days * TicksPerDay
       IN  [log_type |-> log_type,
            retention_days |-> retention_days,
            cutoff_date |-> cutoff,
            purged_count |-> CategoryCount(log_type, "auth", "auth_", cutoff)
                             + CategoryCount(log_type, "document", "doc_", cutoff)
                             + CategoryCount(log_type, "system", "system_", cutoff)
                             + CategoryCount(log_type, "compliance", "compliance_", cutoff),
            dry_run |-> dry_run,
            status |-> "success"]

\* mutant of PurgeExpiredLogs: the oldest line of the file is dropped
PurgeExpiredLogsTruncating(log_type, dry_run) ==
  /\ ConsumeEntry
  /\ resp' = Response("purge_expired_logs", [log_type |-> log_type, dry_run |-> dry_run],
                      PurgeExpiredLogsResult(log_type, dry_run))
  /\ file' = IF file # <<>> THEN Tail(file) ELSE file
  /\ UNCHANGED <<file_nl, audit_logs, key_id, logged, acked, mutated,
                 restarts, foreign_writes, threads, key_files, router, handler_calls>>

\* mutant of PurgeExpiredLogs: the second line of the file is removed
PurgeExpiredLogsRemoving(log_type, dry_run) ==
  /\ ConsumeEntry
  /\ resp' = Response("purge_expired_logs", [log_type |-> log_type, dry_run |-> dry_run],
                      PurgeExpiredLogsResult(log_type, dry_run))
  /\ file' = IF Len(file) >= 3 THEN <<file[1]>> \o SubSeq(file, 3, Len(file)) ELSE file
  /\ UNCHANGED <<file_nl, audit_logs, key_id, logged, acked, mutated,
                 restarts, foreign_writes, threads, key_files, router, handler_calls>>

\* handle_purge_expired_logs: the log_purge entry is created and never written
PurgeExpiredLogs(log_type, dry_run) ==
  /\ ConsumeEntry
  /\ resp' = Response("purge_expired_logs", [log_type |-> log_type, dry_run |-> dry_run],
                      PurgeExpiredLogsResult(log_type, dry_run))
  /\ UNCHANGED <<file, file_nl, audit_logs, key_id, logged, acked, mutated,
                 restarts, foreign_writes, threads, key_files, router, handler_calls>>

\* handle_query_audit_logs with well-formed times
QueryAuditLogs(filters, start, end, limit, offset) ==
  LET arg == [filters |-> filters, start |-> start, end |-> end,
              limit |-> limit, offset |-> offset]
      result == QueryLogs(filters, start, end, limit, offset)
  IN  /\ resp' = IF "raised" \in DOMAIN result
                 THEN ErrorResponse("query_audit_logs", arg, "processing_error")
                 ELSE Response("query_audit_logs", arg, result)
      /\ UNCHANGED <<ledger, now, uuid_count, logged, acked, mutated, restarts,
                     foreign_writes, threads, key_files, router, handler_calls>>

\* a start_time or end_time string datetime.fromisoformat rejects
MalformedTime == <<BadTimestamp>>

\* handle_query_audit_logs: the time formats are validated before the query
HandleQueryAuditLogs(filters, start_time, end_time, limit, offset) ==
  IF start_time = MalformedTime \/ end_time = MalformedTime
  THEN /\ resp' = ErrorResponse("query_audit_logs",
                                [filters |-> filters, start |-> start_time, end |-> end_time,
                                 limit |-> limit, offset |-> offset],
                                "validation_error")
       /\ UNCHANGED <<ledger, now, uuid_count, logged, acked, mutated, restarts,
                      foreign_writes, threads, key_files, router, handler_calls>>
  ELSE QueryAuditLogs(filters, start_time, end_time, limit, offset)

RequiredCheckFields == {"compliance_type", "target_id"}

\* handle_run_compliance_check: the required fields are validated first
HandleRunComplianceCheck(fields, compliance_type, check_params) ==
  IF ~(RequiredCheckFields \subseteq fields)
  THEN /\ resp' = ErrorResponse("run_compliance_check",
                                [compliance_type |-> compliance_type,
                                 check_params |-> check_params],
                                "validation_error")
       /\ UNCHANGED <<ledger, now, uuid_count, logged, acked, mutated, restarts,
                      foreign_writes, threads, key_files, router, handler_calls>>
  ELSE RunComplianceCheck(compliance_type, check_params)

RequiredReportFields == {"compliance_type", "report_period"}

\* mutant of HandleGenerateComplianceReport: the report entry is created
\* before the request is validated
HandleGenerateComplianceReportLoggedFirst(fields, compliance_type) ==
  /\ ConsumeEntry
  /\ resp' = IF ~(RequiredReportFields \subseteq fields) \/ compliance_type \notin ComplianceTypes
             THEN ErrorResponse("generate_compliance_report", compliance_type,
                                "validation_error")
             ELSE Response("generate_compliance_report", compliance_type,
                           [status |-> "success"])
  /\ UNCHANGED <<file, file_nl, audit_logs, key_id, logged, acked, mutated,
                 restarts, foreign_writes, threads, key_files, router, handler_calls>>

\* handle_generate_compliance_report: the required fields are validated first
HandleGenerateComplianceReport(fields, compliance_type) ==
  IF ~(RequiredReportFields \subseteq fields)
  THEN /\ resp' = ErrorResponse("generate_compliance_report", compliance_type,
                                "validation_error")
       /\ UNCHANGED <<ledger, now, uuid_count, logged, acked, mutated, restarts,
                      foreign_writes, threads, key_files, router, handler_calls>>
  ELSE GenerateComplianceReport(compliance_type)

(***************************************************************************)
(* log_action called from several threads of one process.  Nothing in the  *)
(* class takes a lock, so a thread switch can fall between any two steps   *)
(* below: the load and the store of "self.sequence_counter += 1", the read *)
(* "sequence = self.sequence_counter", the read of the previous hash, the  *)
(* append to the file and the append to the cache.                         *)
(***************************************************************************)
Threads == 1..MaxThreads

IdleThread == [pc |-> "idle", log_id |-> 0, timestamp |-> 0, loaded |-> 0,
               sequence |-> 0, log_entry |-> None]

\* _create_log_entry with the values a thread has read so far
BuildLogEntry(log_id, timestamp, sequence, previous_hash) ==
  LET content == [kind |-> "entry",
                  log_id |-> log_id,
                  timestamp |-> timestamp,
                  sequence |-> sequence,
                  action_type |-> "doc_parse",
                  actor_id |-> "user",
                  target |-> "doc",
                  result |-> "unknown",
                  details |-> DetailsEmpty,
                  context |-> <<>>,
                  previous_hash |-> previous_hash]
      log_hash == ComputeHash(content)
  IN  [kind |-> "entry",
       log_id |-> log_id,
       timestamp |-> timestamp,
       sequence |-> sequence,
       action_type |-> "doc_parse",
       actor_id |-> "user",
       target |-> "doc",
       result |-> "unknown",
       details |-> DetailsEmpty,
       context |-> <<>>,
       previous_hash |-> previous_hash,
       hash |-> log_hash,
       signature |-> SignHash(log_hash, TRUE)]

\* lines 589-595: uuid4, utcnow, and the load of self.sequence_counter
ThreadLoad(t) ==
  /\ threads[t].pc = "idle"
  /\ uuid_count < MaxConcurrentCreated
  /\ threads' = [threads EXCEPT ![t] = [IdleThread EXCEPT !.pc = "loaded",
                                                           !.log_id = uuid_count + 1,
                                                           !.timestamp = now,
                                                           !.loaded = sequence_counter]]
  /\ uuid_count' = uuid_count + 1
  /\ now' = now + 1
  /\ resp' = [op |-> "thread", arg |-> t, type |-> "none"]
  /\ UNCHANGED <<ledger, logged, acked, mutated, restarts, foreign_writes, key_files, router, handler_calls>>

\* line 595: the store of self.sequence_counter += 1
ThreadStore(t) ==
  /\ threads[t].pc = "loaded"
  /\ sequence_counter' = threads[t].loaded + 1
  /\ threads' = [threads EXCEPT ![t].pc = "stored"]
  /\ resp' = [op |-> "thread", arg |-> t, type |-> "none"]
  /\ UNCHANGED <<file, file_nl, audit_logs, key_id, now, uuid_count, logged, acked,
                 mutated, restarts, foreign_writes, key_files, router, handler_calls>>

\* line 596: sequence = self.sequence_counter
ThreadRead(t) ==
  /\ threads[t].pc = "stored"
  /\ threads' = [threads EXCEPT ![t].pc = "read", ![t].sequence = sequence_counter]
  /\ resp' = [op |-> "thread", arg |-> t, type |-> "none"]
  /\ UNCHANGED <<ledger, now, uuid_count, logged, acked, mutated, restarts, foreign_writes, key_files, router, handler_calls>>

\* lines 598-651: the previous hash is read and the entry hashed and signed
ThreadBuild(t) ==
  /\ threads[t].pc = "read"
  /\ threads' = [threads EXCEPT ![t].pc = "built",
                                ![t].log_entry = BuildLogEntry(threads[t].log_id,
                                                               threads[t].timestamp,
                                                               threads[t].sequence,
                                                               PreviousHash)]
  /\ resp' = [op |-> "thread", arg |-> t, type |-> "none"]
  /\ UNCHANGED <<ledger, now, uuid_count, logged, acked, mutated, restarts, foreign_writes, key_files, router, handler_calls>>

\* handle_log_action, line 301: _write_to_audit_trail
ThreadWrite(t) ==
  /\ threads[t].pc = "built"
  /\ WriteToAuditTrail(threads[t].log_entry, "ok")
  /\ threads' = [threads EXCEPT ![t].pc = "written"]
  /\ resp' = [op |-> "thread", arg |-> t, type |-> "none"]
  /\ UNCHANGED <<audit_logs, sequence_counter, key_id, now, uuid_count, logged, acked,
                 mutated, restarts, foreign_writes, key_files, router, handler_calls>>

\* handle_log_action, lines 304-311: _add_to_cache and the response
ThreadReturn(t) ==
  /\ threads[t].pc = "written"
  /\ audit_logs' = AddToCache(audit_logs, threads[t].log_entry)
  /\ resp' = Response("log_action", "",
                      [log_id |-> threads[t].log_entry.log_id,
                       timestamp |-> threads[t].log_entry.timestamp,
                       sequence |-> threads[t].log_entry.sequence,
                       status |-> "logged"])
  /\ logged' = Append(logged, threads[t].log_entry)
  /\ acked' = acked \cup {threads[t].log_entry.log_id}
  /\ threads' = [threads EXCEPT ![t] = IdleThread]
  /\ UNCHANGED <<file, file_nl, sequence_counter, key_id, now, uuid_count, mutated,
                 restarts, foreign_writes, key_files, router, handler_calls>>

\* a key file that exists and that load_pem_private_key / load_pem_public_key
\* accepts.  Only _generate_new_keys writes the two files, both from one
\* pair, so two files that load hold the same pair.
Loads(key_file) == "pem" \in DOMAIN key_file

\* mutant of InitCryptoKeys: a new pair is generated at every construction
InitCryptoKeysRegenerating ==
  [key_id |-> key_id + 1, key_files |-> WrittenKeyFiles(key_id + 1)]

\* _generate_new_keys: a pair no earlier entry was signed with, written to
\* both files
GenerateNewKeys ==
  [key_id |-> key_id + 1, key_files |-> WrittenKeyFiles(key_id + 1)]

\* _init_crypto_keys: the pair of the files when both exist and load, a new
\* pair otherwise
InitCryptoKeys ==
  IF key_files.private # Absent /\ key_files.public # Absent
  THEN IF Loads(key_files.private) /\ Loads(key_files.public)
       THEN [key_id |-> key_files.private.pem, key_files |-> key_files]
       ELSE GenerateNewKeys
  ELSE GenerateNewKeys

\* AuditOrchestrator.__init__ over the existing file and key files
Reinstantiate ==
  /\ restarts' = restarts + 1
  /\ audit_logs' = <<>>
  /\ sequence_counter' = InitSequenceCounter
  /\ key_id' = InitCryptoKeys.key_id
  /\ key_files' = InitCryptoKeys.key_files
  /\ logged' = <<>>
  /\ resp' = [op |-> "init", arg |-> restarts, type |-> "none"]
  /\ UNCHANGED <<file, file_nl, now, uuid_count, acked, mutated, foreign_writes, threads, router, handler_calls>>

Restart == restarts < MaxRestarts /\ Reinstantiate

\* time passes: more days than the document retention period
JumpDays == RetentionPeriods.document_logs + 1

PassTime ==
  /\ now < MaxTimeJumps * JumpDays * TicksPerDay
  /\ now' = now + JumpDays * TicksPerDay
  /\ resp' = [op |-> "clock", arg |-> JumpDays, type |-> "none"]
  /\ UNCHANGED <<ledger, uuid_count, logged, acked, mutated, restarts, foreign_writes, threads, key_files, router, handler_calls>>

\* BaseAgent._create_audit_entry appends its own JSON line to the same file
ForeignAppend ==
  /\ foreign_writes < MaxForeign
  /\ foreign_writes' = foreign_writes + 1
  /\ file' = AppendedFile(Foreign)
  /\ file_nl' = TRUE
  /\ resp' = [op |-> "foreign", arg |-> foreign_writes, type |-> "none"]
  /\ UNCHANGED <<audit_logs, sequence_counter, key_id, now, uuid_count, logged, acked,
                 mutated, restarts, threads, key_files, router, handler_calls>>

\* the lines SupabaseStorage._log_action writes: five lines of plain text and
\* an empty one, none of which json.loads can parse
StorageLogLines == 6

\* SupabaseStorage._log_action appends its text block to the same file
StorageLogAction ==
  /\ foreign_writes < MaxForeign
  /\ foreign_writes' = foreign_writes + 1
  /\ file' = AppendedFile(Garbage) \o [i \in 1..(StorageLogLines - 1) |-> Garbage]
  /\ file_nl' = TRUE
  /\ resp' = [op |-> "storage_log", arg |-> foreign_writes, type |-> "none"]
  /\ UNCHANGED <<audit_logs, sequence_counter, key_id, now, uuid_count, logged, acked,
                 mutated, restarts, threads, key_files, router, handler_calls>>

(***************************************************************************)
(* External mutation of one field of a persisted entry.                    *)
(***************************************************************************)
Forged == [forged |-> TRUE]

Mutation(line, field) ==
  CASE field = "log_id" -> [line EXCEPT !.log_id = 0]
    [] field = "timestamp" -> [line EXCEPT !.timestamp = line.timestamp + 1]
    [] field = "bad_timestamp" -> [line EXCEPT !.timestamp = BadTimestamp]
    [] field = "sequence" -> [line EXCEPT !.sequence = 0]
    [] field = "action_type" -> [line EXCEPT !.action_type = "forged"]
    [] field = "actor_id" -> [line EXCEPT !.actor_id = "forged"]
    [] field = "target" -> [line EXCEPT !.target = "forged"]
    [] field = "result" -> [line EXCEPT !.result = "forged"]
    [] field = "details" -> [line EXCEPT !.details = <<[k |-> StrKey(<<12>>), v |-> 0]>>]
    [] field = "context" -> [line EXCEPT !.context = <<Forged>>]
    [] field = "previous_hash" -> [line EXCEPT !.previous_hash = Forged]
    [] field = "hash" -> [line EXCEPT !.hash = Forged]
    [] field = "signature" -> [line EXCEPT !.signature = Forged]
    [] OTHER -> [line EXCEPT !.signature = EmptySig]

MutableFields == HashedFields \cup {"bad_timestamp", "hash", "signature", "no_signature"}

Tamper(i, field) ==
  /\ Cardinality(mutated) < MaxTamper
  /\ i \in 1..Len(file)
  /\ file[i].kind = "entry"
  /\ file' = [file EXCEPT ![i] = Mutation(file[i], field)]
  /\ mutated' = mutated \cup {<<i, field, file[i]>>}
  /\ resp' = [op |-> "tamper", arg |-> <<i, field>>, type |-> "none"]
  /\ UNCHANGED <<file_nl, audit_logs, sequence_counter, key_id, now, uuid_count, logged,
                 acked, restarts, foreign_writes, threads, key_files, router, handler_calls>>

(***************************************************************************)
(* The specification.                                                      *)
(***************************************************************************)
Init ==
  /\ file = <<>>
  /\ file_nl = TRUE
  /\ audit_logs = <<>>
  /\ sequence_counter = 0
  /\ key_id = 1
  /\ now = 1
  /\ uuid_count = 0
  /\ resp = [op |-> "init", arg |-> 0, type |-> "none"]
  /\ logged = <<>>
  /\ acked = {}
  /\ mutated = {}
  /\ restarts = 0
  /\ foreign_writes = 0
  /\ threads = [t \in Threads |-> IdleThread]
  /\ key_files = WrittenKeyFiles(1)
  /\ router = NewRouter
  /\ handler_calls = <<>>

\* Spec: every handler, re-instantiation and the other writers of the file
\* (signing failures are explored under SpecVerify)
DoLogAction ==
  \E details \in {DetailsEmpty, DetailsMixedKeys}, outcome \in WriteOutcomes :
     /\ uuid_count < MaxCreated
     /\ LogAction(LogParams(RequiredLogFields, "doc_parse", details), TRUE, outcome)

DoRejectedLogAction == LogAction(MissingTarget, TRUE, "ok")

DoVerifyEntry == \E log_id \in 1..uuid_count : VerifyEntry(log_id)

DoVerifyRange == \E start \in {<<>>, <<2>>} : VerifyRange(start)

DoRunComplianceCheck ==
  \E t \in {"gdpr", "sox"} :
     uuid_count < MaxCreated /\ RunComplianceCheck(t, DefaultCheckParams)

DoGenerateComplianceReport ==
  \E t \in {"gdpr", "sox"} : uuid_count < MaxCreated /\ GenerateComplianceReport(t)

DoPurgeExpiredLogs ==
  \E dry_run \in BOOLEAN : uuid_count < MaxCreated /\ PurgeExpiredLogs("all", dry_run)

Next ==
  \/ DoLogAction
  \/ DoRejectedLogAction
  \/ DoVerifyEntry
  \/ DoVerifyRange
  \/ DoRunComplianceCheck
  \/ DoGenerateComplianceReport
  \/ DoPurgeExpiredLogs
  \/ Restart
  \/ ForeignAppend

Spec == Init /\ [][Next]_vars

\* SpecVerify: logging, re-instantiation, external mutation and verification
VLogAction ==
  \E details \in {DetailsStrKeys, DetailsIntKeys}, sign_ok \in BOOLEAN,
     outcome \in {"ok"} :
     /\ uuid_count < MaxVerifyCreated
     /\ LogAction(LogParams(RequiredLogFields, "doc_parse", details), sign_ok, outcome)

VTamper == \E i \in 1..Len(file), field \in MutableFields : Tamper(i, field)

NextVerify ==
  \/ VLogAction
  \/ Restart
  \/ VTamper
  \/ DoVerifyEntry
  \/ DoVerifyRange

SpecVerify == Init /\ [][NextVerify]_vars

\* SpecRange: ledgers longer than the verification report
RLogAction ==
  /\ uuid_count < MaxRangeCreated
  /\ LogAction(LogParams(RequiredLogFields, "doc_parse", DetailsEmpty), TRUE, "ok")

RTamper ==
  \E i \in 1..Len(file), field \in {"target", "signature", "no_signature", "previous_hash"} :
     Tamper(i, field)

NextRange ==
  \/ RLogAction
  \/ RTamper
  \/ DoVerifyRange

SpecRange == Init /\ [][NextRange]_vars

\* SpecCompliance: compliance evaluations over every combination of parameters
CLogAction ==
  /\ uuid_count < MaxComplianceCreated
  /\ LogAction(LogParams(RequiredLogFields, "doc_parse", DetailsEmpty), TRUE, "ok")

CRunComplianceCheck ==
  \E compliance_type \in ComplianceTypes \cup {"sox"},
     document_size \in {<<>>, <<11>>},
     detected_patterns \in {{}, {"ssn"}, {"name"}},
     metadata \in {{}, {"consent"}},
     document_date \in {Absent, InvalidDate,
                        [t |-> now, aware |-> FALSE],
                        [t |-> now - 731 * TicksPerDay, aware |-> FALSE],
                        [t |-> now, aware |-> TRUE]} :
     /\ uuid_count < MaxComplianceCreated
     /\ RunComplianceCheck(compliance_type,
                           CheckParams(document_size, detected_patterns, metadata,
                                       document_date))

NextCompliance ==
  \/ CLogAction
  \/ CRunComplianceCheck

SpecCompliance == Init /\ [][NextCompliance]_vars

\* SpecQuery: logging under several action types, re-instantiation and queries
QLogAction ==
  \E p \in {<<"doc_", DetailsEmpty>>, <<"doc_parse", DetailsGdpr>>} :
     /\ uuid_count < MaxQueryCreated
     /\ LogAction(LogParams(RequiredLogFields, p[1], p[2]), TRUE, "ok")

QueryFilters ==
  {{}, {Filter(<<"action_type">>, "doc_")}, {Filter(<<"details", "compliance_type">>, "gdpr")}}

QQueryAuditLogs ==
  \E filters \in QueryFilters,
     range \in {<<<<>>, <<>>>>, <<<<2>>, <<>>>>, <<<<>>, <<2>>>>},
     page \in {<<100, 0>>, <<1, 0>>, <<1, 1>>} :
     QueryAuditLogs(filters, range[1], range[2], page[1], page[2])

NextQuery ==
  \/ QLogAction
  \/ Restart
  \/ QQueryAuditLogs

SpecQuery == Init /\ [][NextQuery]_vars

\* SpecPurge: logging, the passing of time, purges and range verification
PLogAction ==
  \E action_type \in {"doc_", "doc_parse"} :
     /\ uuid_count < MaxPurgeCreated
     /\ LogAction(LogParams(RequiredLogFields, action_type, DetailsEmpty), TRUE, "ok")

PPurgeExpiredLogs ==
  \E log_type \in {"all", "document", "everything"}, dry_run \in BOOLEAN :
     /\ uuid_count < MaxPurgeCreated
     /\ PurgeExpiredLogs(log_type, dry_run)

PVerifyRange == VerifyRange(<<>>)

NextPurge ==
  \/ PLogAction
  \/ PassTime
  \/ PPurgeExpiredLogs
  \/ PVerifyRange

SpecPurge == Init /\ [][NextPurge]_vars

\* SpecRequests: well-formed and rejected requests of every handler that
\* validates its input
MaxRequestCreated == 3  \* entries created under SpecRequests

ReqLogAction ==
  \E fields \in SUBSET RequiredLogFields :
     /\ uuid_count < MaxRequestCreated
     /\ LogAction(LogParams(fields, "doc_parse", DetailsEmpty), TRUE, "ok")

ReqQueryAuditLogs ==
  \E start_time \in {<<>>, <<2>>, MalformedTime}, end_time \in {<<>>, <<2>>, MalformedTime} :
     HandleQueryAuditLogs({}, start_time, end_time, 100, 0)

ReqRunComplianceCheck ==
  \E fields \in SUBSET RequiredCheckFields, compliance_type \in {"gdpr", "sox"} :
     /\ uuid_count < MaxRequestCreated
     /\ HandleRunComplianceCheck(fields, compliance_type, DefaultCheckParams)

ReqGenerateComplianceReport ==
  \E fields \in SUBSET RequiredReportFields, compliance_type \in {"hipaa", "sox"} :
     /\ uuid_count < MaxRequestCreated
     /\ HandleGenerateComplianceReport(fields, compliance_type)

NextRequests ==
  \/ ReqLogAction
  \/ ReqQueryAuditLogs
  \/ ReqRunComplianceCheck
  \/ ReqGenerateComplianceReport

SpecRequests == Init /\ [][NextRequests]_vars

\* SpecWriters: the ledger and the other components that append to
\* output/audit/audit_trail.jsonl
MaxWritersCreated == 2  \* entries created under SpecWriters

WLogAction ==
  \E outcome \in WriteOutcomes :
     /\ uuid_count < MaxWritersCreated
     /\ LogAction(LogParams(RequiredLogFields, "doc_parse", DetailsEmpty), TRUE, outcome)

WVerifyRange == VerifyRange(<<>>)

NextWriters ==
  \/ WLogAction
  \/ ForeignAppend
  \/ StorageLogAction
  \/ Restart
  \/ WVerifyRange

SpecWriters == Init /\ [][NextWriters]_vars

\* SpecConcurrent: log_action called from MaxThreads threads of one process
CLoad == \E t \in Threads : ThreadLoad(t)
CStore == \E t \in Threads : ThreadStore(t)
CRead == \E t \in Threads : ThreadRead(t)
CBuild == \E t \in Threads : ThreadBuild(t)
CWrite == \E t \in Threads : ThreadWrite(t)
CReturn == \E t \in Threads : ThreadReturn(t)

NextConcurrent ==
  \/ CLoad
  \/ CStore
  \/ CRead
  \/ CBuild
  \/ CWrite
  \/ CReturn

SpecConcurrent == Init /\ [][NextConcurrent]_vars

\* SpecReport: evaluations, logged compliance_check entries, the passing of
\* time and reports over the named periods
MaxReportCreated == 3  \* entries created under SpecReport

RepLogAction ==
  \E overall_status \in {"compliant", "medium_violation"} :
     /\ uuid_count < MaxReportCreated
     /\ LogAction(LogParams(RequiredLogFields, "compliance_check",
                            DetailsEvaluation("hipaa", overall_status)), TRUE, "ok")

RepRunComplianceCheck ==
  \E compliance_type \in {"gdpr", "hipaa"} :
     /\ uuid_count < MaxReportCreated
     /\ RunComplianceCheck(compliance_type, DefaultCheckParams)

RepGenerateComplianceReport ==
  \E compliance_type \in {"gdpr", "hipaa"},
     report_period \in {"last_7_days", "last_year", "last_decade"} :
     /\ uuid_count < MaxReportCreated
     /\ GenerateComplianceReportFor(compliance_type, report_period)

NextReport ==
  \/ RepLogAction
  \/ RepRunComplianceCheck
  \/ RepGenerateComplianceReport
  \/ PassTime

SpecReport == Init /\ [][NextReport]_vars

(***************************************************************************)
(* Properties.                                                             *)
(***************************************************************************)
IsEntry(i) == file[i].kind = "entry"

LoggedResponse == resp.op = "log_action" /\ resp.type = "response"

\* C1: within one ledger instance the sequence values returned by the
\* successful log_action calls are strictly increasing, whatever compliance
\* checks, reports, purges, verifications and failed writes run in between.
C1_SequencesStrictlyIncrease ==
  /\ \A i, j \in 1..Len(logged) : i < j => logged[i].sequence < logged[j].sequence
  /\ LoggedResponse =>
       /\ logged # <<>>
       /\ resp.data.sequence = logged[Len(logged)].sequence
       /\ resp.data.sequence = sequence_counter

\* two successful log_action calls of one instance with another call, which
\* consumed a sequence number, between them
C1_Witness ==
  /\ LoggedResponse
  /\ Len(logged) >= 2
  /\ logged[2].sequence > logged[1].sequence + 1

\* C2: within one ledger instance, every entry persisted by log_action
\* carries as previous_hash the hash of the entry log_action persisted just
\* before it.
C2_ChainWithinInstance ==
  \A i \in 2..Len(logged) : logged[i].previous_hash = logged[i - 1].hash

\* three entries persisted by one instance that was constructed over a file
C2_Witness ==
  /\ LoggedResponse
  /\ restarts = 1
  /\ Len(logged) = 2
  /\ logged[2].previous_hash = logged[1].hash
  /\ Len(file) >= 3

\* C3: with a cold cache over a file whose last line is a valid entry, the
\* first entry log_action writes has previous_hash equal to the hash of that
\* last line; previous_hash is missing only on the first entry of the ledger.
C3_ColdCachePreviousHash ==
  /\ (/\ LoggedResponse
      /\ restarts > 0
      /\ Len(logged) = 1
      /\ Len(file) >= 2
      /\ file[Len(file)] = FileLine(logged[1])
      /\ IsEntry(Len(file) - 1))
     => logged[1].previous_hash = file[Len(file) - 1].hash
  /\ \A i \in 1..Len(file) :
       (IsEntry(i) /\ Get(file[i].previous_hash) = None)
       => \A j \in 1..(i - 1) : ~IsEntry(j)

\* C4: after the ledger is re-instantiated over an existing file, the next
\* sequence it assigns is greater than every sequence persisted in the file.
C4_RestartAboveEverySequence ==
  (resp.op = "init" /\ restarts > 0)
  => \A i \in 1..Len(file) : IsEntry(i) => sequence_counter + 1 > file[i].sequence

MutatedLines == {m[1] : m \in mutated}

\* log ids of the entries an external mutation touched
MutatedIds == {m[3].log_id : m \in mutated}

\* the entry was valid when it was written: its hash reproduces from the
\* line in the file and its signature verifies
ValidLine(line) ==
  /\ ComputeHash(line) = line.hash
  /\ VerifySignature(line.hash, line.signature)

\* C5: for every entry persisted by log_action, the hash recomputed from the
\* persisted line without hash and signature equals the stored hash.
C5_PersistedHashReproduces ==
  \A i \in 1..Len(file) :
     (IsEntry(i) /\ i \notin MutatedLines) => ComputeHash(file[i]) = file[i].hash

\* C6: verify_entry reports hash_matches, signature_valid and verified, all
\* true, for every entry log_action acknowledged and nobody modified.
C6_AckedEntryVerifies ==
  (/\ resp.op = "verify_entry"
   /\ resp.arg \in acked
   /\ resp.arg \notin MutatedIds)
  => /\ "hash_matches" \in DOMAIN resp.data
     /\ resp.data.hash_matches
     /\ resp.data.signature_valid
     /\ resp.data.verified

\* C7: after any field of a valid persisted entry was mutated, verify_entry
\* reports hash_matches = false for it, cached or not (the entry is looked up
\* by its log_id, so the mutations taken here leave log_id alone).
C7_MutationBreaksHash ==
  \A m \in mutated :
     (/\ resp.op = "verify_entry"
      /\ m[2] # "log_id"
      /\ resp.arg = m[3].log_id
      /\ ValidLine(m[3]))
     => /\ "hash_matches" \in DOMAIN resp.data
        /\ ~resp.data.hash_matches

\* every line of the file is an entry log_action acknowledged, unmodified,
\* signed, and with a hash that reproduces from the line
OnlyLoggedLines ==
  /\ mutated = {}
  /\ file # <<>>
  /\ \A i \in 1..Len(file) :
       IsEntry(i) /\ file[i].log_id \in acked /\ ValidLine(file[i])

\* C8: over a file that only successful log_action calls produced (each
\* entry signed and never touched), across any number of restarts,
\* verify_range over the whole ledger reports chain_valid and all_verified.
C8_UntamperedLedgerVerifies ==
  (/\ resp.op = "verify_range"
   /\ resp.arg = <<>>
   /\ OnlyLoggedLines)
  => /\ resp.type = "response"
     /\ "chain_valid" \in DOMAIN resp.data
     /\ resp.data.chain_valid
     /\ resp.data.all_verified

\* C9: after one field of a persisted entry B was corrupted in the file,
\* verify_range reports hash_matches = false for B and chain_valid = false,
\* and verify_entry reports verified for every earlier, untouched entry.
C9_CorruptionLocalised ==
  \A m \in mutated :
     (Cardinality(mutated) = 1) =>
       /\ (resp.op = "verify_range" /\ resp.arg = <<>>)
          => /\ resp.type = "response"
             /\ "chain_valid" \in DOMAIN resp.data
             /\ ~resp.data.chain_valid
             /\ \E k \in 1..Len(resp.data.verification_details) :
                  LET r == resp.data.verification_details[k] IN
                  /\ r.log_id = file[m[1]].log_id
                  /\ "hash_matches" \in DOMAIN r
                  /\ ~r.hash_matches
       /\ (/\ resp.op = "verify_entry"
           /\ \E i \in 1..(m[1] - 1) : IsEntry(i) /\ file[i].log_id = resp.arg)
          => resp.data.verified

\* verify_range returned a verification report
RangeReport ==
  /\ resp.op = "verify_range"
  /\ resp.type = "response"
  /\ "verification_details" \in DOMAIN resp.data

\* C10 as stated: verification_details holds one result for every entry of
\* the requested range, however many entries the range holds.
C10_EveryEntryReported ==
  RangeReport =>
    Len(resp.data.verification_details) = Len(RangeLogs(resp.arg, <<now>>))

\* the entry fails on its own: hash mismatch, or empty or invalid signature
EntryFails(log) ==
  \/ log.signature = EmptySig
  \/ ComputeHash(log) # log.hash
  \/ ~VerifySignature(log.hash, log.signature)

\* C10, amended: verify_range examines every entry of the requested range
\* and does not stop at the first failure: logs_verified counts them all,
\* and chain_valid and all_verified are false as soon as any entry of the
\* range fails or any link between two signed neighbours is broken; but
\* verification_details lists the results of the first 10 entries only, in
\* sequence order.
C10_EveryEntryExaminedFirstTenReported ==
  RangeReport =>
    LET logs == SortBySequence(RangeLogs(resp.arg, <<now>>))
        details == resp.data.verification_details
    IN  /\ resp.data.logs_verified = Len(logs)
        /\ Len(details) = Min(DetailsLimit, Len(logs))
        /\ \A k \in 1..Len(details) :
             /\ details[k].log_id = logs[k].log_id
             /\ EntryFails(logs[k]) => ~details[k].verified
             /\ "hash_matches" \in DOMAIN details[k] =>
                  /\ details[k].hash_matches = (ComputeHash(logs[k]) = logs[k].hash)
                  /\ details[k].signature_valid =
                       VerifySignature(logs[k].hash, logs[k].signature)
        /\ (\E k \in 1..Len(logs) : EntryFails(logs[k]))
           => ~resp.data.chain_valid /\ ~resp.data.all_verified
        /\ (\E k \in 2..Len(logs) :
              /\ logs[k].signature # EmptySig
              /\ logs[k - 1].signature # EmptySig
              /\ Get(logs[k].previous_hash) # logs[k - 1].hash)
           => ~resp.data.chain_valid /\ ~resp.data.all_verified

\* a range of more than 10 entries whose only failing entry lies beyond the
\* tenth: the report is cut, the verdict still counts the failure
C10_Witness ==
  /\ RangeReport
  /\ resp.arg = <<>>
  /\ resp.data.logs_verified > DetailsLimit
  /\ Len(resp.data.verification_details) = DetailsLimit
  /\ \E m \in mutated : m[1] > DetailsLimit
  /\ \A k \in 1..DetailsLimit : resp.data.verification_details[k].verified
  /\ ~resp.data.all_verified

\* the entry held in the cache is a line of the file
CachedInFile(e) == \E i \in 1..Len(file) : file[i] = FileLine(e)

\* a step of handle_log_action that ended in a processing error
LogActionFailed ==
  /\ uuid_count' = uuid_count + 1
  /\ resp'.op = "log_action"
  /\ resp'.type = "error"
  /\ resp'.error_code = "processing_error"

\* C11: every cached entry is a line of the file, and a log_action that
\* fails with a processing error leaves the file and the cache as they were.
C11_CacheAfterDurableWrite ==
  /\ [](\A k \in 1..Len(audit_logs) : CachedInFile(audit_logs[k]))
  /\ [][LogActionFailed => /\ file' = file
                           /\ file_nl' = file_nl
                           /\ audit_logs' = audit_logs]_vars

\* C12: a signing failure is propagated, so no entry log_action persisted,
\* cached or acknowledged carries an empty signature.
C12_NoUnsignedEntry ==
  /\ \A i \in 1..Len(file) :
       (IsEntry(i) /\ i \notin MutatedLines) => file[i].signature # EmptySig
  /\ \A k \in 1..Len(audit_logs) : audit_logs[k].signature # EmptySig
  /\ \A k \in 1..Len(logged) : logged[k].signature # EmptySig

\* run_compliance_check was called for a configured framework
EvaluationAsked ==
  /\ resp.op = "run_compliance_check"
  /\ resp.arg.compliance_type \in ComplianceTypes

\* the severities of the rules the evaluation reports as failed
FailedSeverities(checks) == {checks[i].severity : i \in {j \in 1..Len(checks) : ~checks[j].passed}}

\* C13: for every framework and every params the evaluation answers with an
\* overall_status decided by strict priority over the failing rules
\* (critical, high, medium, any other failure, compliant); gdpr with "ssn"
\* among detected_patterns yields high_violation.
C13_StrictSeverityPriority ==
  EvaluationAsked =>
    /\ resp.type = "response"
    /\ LET failed == FailedSeverities(resp.data.checks) IN
       resp.data.overall_status =
         IF "critical" \in failed THEN "critical_violation"
         ELSE IF "high" \in failed THEN "high_violation"
         ELSE IF "medium" \in failed THEN "medium_violation"
         ELSE IF failed # {} THEN "low_violation"
         ELSE "compliant"
    /\ (resp.arg.compliance_type = "gdpr" /\ "ssn" \in resp.arg.check_params.detected_patterns)
       => resp.data.overall_status = "high_violation"

\* run_compliance_check returned an evaluation result
EvaluationReturned == EvaluationAsked /\ resp.type = "response"

\* C14: after run_compliance_check returned a result for a known framework,
\* the ledger file holds a new compliance_check entry for that target,
\* chained to the entry before it.
C14_EvaluationRecorded ==
  EvaluationReturned =>
    /\ file # <<>>
    /\ LET last == file[Len(file)] IN
       /\ last.kind = "entry"
       /\ last.action_type = "compliance_check"
       /\ last.target = resp.data.target_id
       /\ last.sequence = sequence_counter
       /\ Len(file) > 1 => Get(last.previous_hash) = file[Len(file) - 1].hash

\* a step of run_compliance_check for a framework that is not configured
UnknownFrameworkStep ==
  /\ resp'.op = "run_compliance_check"
  /\ resp'.arg.compliance_type \notin ComplianceTypes

\* C20: an evaluation asked for a framework that is not a configured rule
\* set answers with an error and leaves the sequence counter, the file and
\* the cache as they were.
C20_UnknownFrameworkNoEffect ==
  [][UnknownFrameworkStep => /\ resp'.type = "error"
                             /\ sequence_counter' = sequence_counter
                             /\ uuid_count' = uuid_count
                             /\ file' = file
                             /\ file_nl' = file_nl
                             /\ audit_logs' = audit_logs]_vars

\* an unknown framework was rejected on a ledger that already holds an entry
C20_Witness ==
  /\ resp.op = "run_compliance_check"
  /\ resp.arg.compliance_type \notin ComplianceTypes
  /\ resp.type = "error"
  /\ file # <<>>
  /\ audit_logs # <<>>
  /\ sequence_counter > 0

\* query_audit_logs returned a result
QueryReturned == resp.op = "query_audit_logs" /\ resp.type = "response"

\* the entry has the value asked for under the filter's path
SatisfiesFilter(log, f) ==
  IF f.path = <<"action_type">> THEN log.action_type = f.value
  ELSE \E i \in 1..Len(log.details) :
         log.details[i].k = PartKey(f.path[2]) /\ log.details[i].v = f.value

\* the entry lies in the time range asked for
InQueryRange(log, start, end) ==
  /\ start # <<>> => log.timestamp >= start[1]
  /\ end # <<>> => log.timestamp <= end[1]

\* C15: a query returns only entries that satisfy every filter and the time
\* range, newest first, and no log_id twice, also when entries are both in
\* the cache and in the file.
C15_QueryOnlyMatchingNewestFirst ==
  QueryReturned =>
    LET logs == resp.data.logs IN
    /\ \A k \in 1..Len(logs) :
         /\ \A f \in resp.arg.filters : SatisfiesFilter(logs[k], f)
         /\ InQueryRange(logs[k], resp.arg.start, resp.arg.end)
    /\ \A i, j \in 1..Len(logs) : i < j => logs[i].timestamp >= logs[j].timestamp
    /\ \A i, j \in 1..Len(logs) : i # j => logs[i].log_id # logs[j].log_id

\* a step of handle_purge_expired_logs
PurgeStep == resp'.op = "purge_expired_logs" /\ uuid_count' # uuid_count

\* purge returned its statistics
PurgeReturned ==
  /\ resp.op = "purge_expired_logs"
  /\ resp.type = "response"
  /\ resp.data.status = "success"

\* C16: a purge with dry_run = true leaves the ledger file and the cache
\* exactly as they were.
C16_DryRunChangesNothing ==
  [][(PurgeStep /\ resp'.arg.dry_run) => /\ file' = file
                                         /\ file_nl' = file_nl
                                         /\ audit_logs' = audit_logs]_vars

\* a dry run that counted expired entries of a non-empty ledger
C16_Witness ==
  /\ PurgeReturned
  /\ resp.arg.dry_run
  /\ resp.data.purged_count > 0
  /\ file # <<>>
  /\ audit_logs # <<>>

\* the entries verify_range examines when asked for the whole ledger
RetainedEntries == SortBySequence(RangeLogs(<<>>, <<now>>))

\* verify_range's loop over these entries reports chain_valid = true and
\* every entry verified (all_verified = true)
RangeVerdict(logs) ==
  LET out == VerifyLoop(logs, 1, <<>>, TRUE, None) IN
  /\ out.chain_valid
  /\ \A i \in 1..Len(out.verification_results) : out.verification_results[i].verified

\* C17: a purge with dry_run = false keeps the chain of the retained entries
\* verifiable: when verify_range reported chain_valid and all_verified over
\* the ledger before the purge, it reports them over the entries that remain.
C17_PurgeKeepsChainVerifiable ==
  [][(PurgeStep /\ ~resp'.arg.dry_run /\ RangeVerdict(RetainedEntries))
       => RangeVerdict(RetainedEntries')]_vars

\* a purge with dry_run = false over a chain of three entries, some of them
\* expired, after which verify_range reports the ledger valid
C17_Witness ==
  /\ PurgeReturned
  /\ ~resp.arg.dry_run
  /\ resp.data.purged_count > 0
  /\ Len(file) >= 3
  /\ Len(RetainedEntries) >= 3
  /\ RangeVerdict(RetainedEntries)

\* the categories an action type belongs to, by its prefix
CategoryOf(action_type) ==
  CASE action_type \in {"doc_", "doc_parse"} -> "document"
    [] action_type \in {"auth_", "auth_login"} -> "auth"
    [] action_type \in {"system_", "system_start"} -> "system"
    [] action_type \in {"compliance_", "compliance_check"} -> "compliance"
    [] OTHER -> "none"

\* file lines of the category that are older than the purge's cutoff
ExpiredLines(log_type, cutoff) ==
  {i \in 1..Len(file) : /\ IsEntry(i)
                        /\ CategoryOf(file[i].action_type) = log_type
                        /\ file[i].timestamp < cutoff}

\* C18: a purge with dry_run = false discards the expired entries of the
\* category and leaves a log_purge entry as the last line of the ledger.
C18_PurgeDiscardsAndRecords ==
  (PurgeReturned /\ ~resp.arg.dry_run) =>
    /\ ExpiredLines(resp.arg.log_type, resp.data.cutoff_date) = {}
    /\ file # <<>>
    /\ file[Len(file)].kind = "entry"
    /\ file[Len(file)].action_type = "log_purge"

\* C19: the count purge returns for a category is the number of ledger
\* entries of that category older than now - retention_days(category).
C19_PurgeCountsCategory ==
  (PurgeReturned /\ resp.arg.log_type \in {"auth", "document", "system", "compliance"}) =>
    resp.data.purged_count =
      Cardinality(ExpiredLines(resp.arg.log_type, resp.data.cutoff_date))

\* a step that answers a request with a validation error
ValidationErrorStep ==
  /\ resp'.type = "error"
  /\ resp'.error_code = "validation_error"

\* C21: a request rejected with a validation error (log_action without a
\* required field, compliance check or report without a required field or
\* for an unknown framework, query with a malformed start_time or end_time)
\* changes nothing: the sequence counter, the ledger file and the cache are
\* what they were, and no entry was created.
C21_ValidationErrorNoStateChange ==
  [][ValidationErrorStep => /\ sequence_counter' = sequence_counter
                            /\ uuid_count' = uuid_count
                            /\ file' = file
                            /\ file_nl' = file_nl
                            /\ audit_logs' = audit_logs]_vars

\* a query with a malformed time was rejected on a ledger that holds an entry
C21_Witness ==
  /\ resp.op = "query_audit_logs"
  /\ resp.type = "error"
  /\ resp.error_code = "validation_error"
  /\ MalformedTime \in {resp.arg.start, resp.arg.end}
  /\ file # <<>>
  /\ audit_logs # <<>>
  /\ sequence_counter > 0

\* C22: the ledger is the only writer of its file: every change of the file
\* is made by log_action, and every parsable line carries sequence, hash and
\* signature.
C22_LedgerOnlyWriter ==
  /\ [](\A i \in 1..Len(file) :
          /\ file[i].kind \in {"entry", "garbage"}
          /\ file[i].kind = "entry" =>
                {"sequence", "hash", "signature"} \subseteq DOMAIN file[i])
  /\ [][file' # file => resp'.op = "log_action"]_vars

\* the operations of the ledger
LedgerOps == {"log_action", "query_audit_logs", "verify_entry", "verify_range",
              "run_compliance_check", "generate_compliance_report",
              "purge_expired_logs"}

\* a step of log_action that was acknowledged
LogActionAcked ==
  /\ resp'.op = "log_action"
  /\ resp'.type = "response"
  /\ uuid_count' # uuid_count

\* C23: the ledger file is append-only: after every step of a ledger operation
\* the lines the file held are the first lines of the new file, unchanged, and
\* an acknowledged log_action adds exactly one line, the acknowledged entry.
C23_FileAppendOnly ==
  [][/\ resp'.op \in LedgerOps =>
          /\ Len(file') >= Len(file)
          /\ SubSeq(file', 1, Len(file)) = file
     /\ LogActionAcked =>
          /\ Len(file') = Len(file) + 1
          /\ file'[Len(file')].kind = "entry"
          /\ file'[Len(file')].log_id = resp'.data.log_id]_vars

\* C24: when log_action calls of several threads interleave, no two entries
\* of the ledger are assigned the same sequence.
C24_ConcurrentSequencesDistinct ==
  \A i, j \in 1..Len(file) :
     (i # j /\ IsEntry(i) /\ IsEntry(j)) => file[i].sequence # file[j].sequence

\* C25: under concurrent log_action calls the persisted entries form one
\* totally ordered chain: file order is sequence order, every entry's
\* previous_hash is the hash of the line just before it, and no two entries
\* have the same previous_hash.
C25_ConcurrentSingleChain ==
  /\ \A i, j \in 1..Len(file) :
        (i < j /\ IsEntry(i) /\ IsEntry(j)) => file[i].sequence < file[j].sequence
  /\ \A i \in 2..Len(file) :
        (IsEntry(i) /\ IsEntry(i - 1)) => Get(file[i].previous_hash) = file[i - 1].hash
  /\ \A i, j \in 1..Len(file) :
        (i # j /\ IsEntry(i) /\ IsEntry(j)) => file[i].previous_hash # file[j].previous_hash

\* verify_range answered, over a ledger file that exists
RangeAnswered == resp.op = "verify_range" /\ FileExists

\* C26: whatever the ledger file holds, verify_range completes with a report:
\* a response whose data carry chain_valid and all_verified, in which an entry
\* whose signature does not verify is reported with signature_valid = false.
C26_VerificationAlwaysReports ==
  RangeAnswered =>
    /\ resp.type = "response"
    /\ {"chain_valid", "all_verified"} \subseteq DOMAIN resp.data
    /\ \A k \in 1..Len(resp.data.verification_details) :
          LET d == resp.data.verification_details[k] IN
          \A i \in 1..Len(file) :
             (/\ IsEntry(i)
              /\ file[i].log_id = d.log_id
              /\ "signature_valid" \in DOMAIN d
              /\ ~VerifySignature(file[i].hash, file[i].signature))
               => ~d.signature_valid

\* the ledger was just constructed over a file whose last line is a valid entry
RestartedOverEntry ==
  /\ resp.op = "init"
  /\ restarts > 0
  /\ file # <<>>
  /\ IsEntry(Len(file))

\* C27: after construction over a file whose last valid entry has sequence s,
\* the first entry log_action writes has sequence s + 1.
C27_ResumesFromNextSequence ==
  [][(RestartedOverEntry /\ resp'.op = "log_action" /\ resp'.type = "response")
       => resp'.data.sequence = file[Len(file)].sequence + 1]_vars

\* the entries of the whole ledger, cache and file together
LedgerEntries ==
  {file[i] : i \in {j \in 1..Len(file) : IsEntry(j)}}
    \cup {FileLine(audit_logs[i]) : i \in 1..Len(audit_logs)}

\* the entries of the ledger that match the filters and the time range of the
\* query that was answered
AllMatching ==
  {e \in LedgerEntries : /\ \A f \in resp.arg.filters : SatisfiesFilter(e, f)
                         /\ InQueryRange(e, resp.arg.start, resp.arg.end)}

\* the position (from 0) of an entry among the matching ones, newest first
Rank(log_id) ==
  LET e == CHOOSE x \in AllMatching : x.log_id = log_id
  IN  Cardinality({x \in AllMatching : x.timestamp > e.timestamp})

\* the timestamp texts of the matching entries sort like their times (the
\* ledgers in which they do not are the subject of C15)
TextOrderIsTimeOrder ==
  \A x, y \in AllMatching :
     x.timestamp < y.timestamp
       => TextLess(TimestampText(x.timestamp), TimestampText(y.timestamp))

\* C28: a query with limit L and offset O returns exactly the slice [O, O + L)
\* of all matching ledger entries sorted by timestamp descending, also when
\* the cache is cold after a restart.
C28_QueryReturnsExactSlice ==
  (QueryReturned /\ TextOrderIsTimeOrder) =>
    LET logs == resp.data.logs
        offset == resp.arg.offset
        limit == resp.arg.limit
        matching == Cardinality(AllMatching)
    IN  /\ Len(logs) = IF matching <= offset THEN 0 ELSE Min(limit, matching - offset)
        /\ \A k \in 1..Len(logs) :
              /\ \E x \in AllMatching : x.log_id = logs[k].log_id
              /\ Rank(logs[k].log_id) = offset + k - 1

\* C29: in a query result count is the number of entries returned, total the
\* number of entries of the whole ledger that match, and has_more tells
\* whether matching entries exist beyond offset + limit.
C29_QueryCountsWholeLedger ==
  QueryReturned =>
    /\ resp.data.count = Len(resp.data.logs)
    /\ resp.data.total = Cardinality(AllMatching)
    /\ resp.data.has_more = (Cardinality(AllMatching) > resp.arg.offset + resp.arg.limit)

\* the document_size the evaluation was asked about exceeds the threshold of
\* the gdpr rule data_minimization
SizeAboveThreshold ==
  /\ resp.arg.check_params.document_size # <<>>
  /\ resp.arg.check_params.document_size[1] > 10

\* C30: in a gdpr evaluation data_minimization is reported passed = false
\* exactly when params.document_size exceeds the threshold 10, and an
\* evaluation whose only failing rule is data_minimization yields
\* low_violation.
C30_DataMinimizationDecided ==
  (EvaluationReturned /\ resp.arg.compliance_type = "gdpr") =>
    LET checks == resp.data.checks
        failed == {checks[i].rule_id : i \in {j \in 1..Len(checks) : ~checks[j].passed}}
    IN  /\ \E i \in 1..Len(checks) :
              /\ checks[i].rule_id = "data_minimization"
              /\ checks[i].passed = ~SizeAboveThreshold
        /\ failed = {"data_minimization"} => resp.data.overall_status = "low_violation"

\* C31: in every evaluation result the violations count of each severity is
\* the number of checks of that severity with passed = false, and all counts
\* are zero when overall_status is compliant.
C31_ViolationsCountFailedChecks ==
  EvaluationReturned =>
    LET v == resp.data.violations
        checks == resp.data.checks
    IN  /\ v.critical = CountFailures(checks, "critical")
        /\ v.high = CountFailures(checks, "high")
        /\ v.medium = CountFailures(checks, "medium")
        /\ v.low = CountFailures(checks, "low")
        /\ resp.data.overall_status = "compliant"
             => v.critical = 0 /\ v.high = 0 /\ v.medium = 0 /\ v.low = 0

\* a report for the framework of the evaluation that has just returned
ReportAfterEvaluation ==
  /\ EvaluationReturned
  /\ resp'.op = "generate_compliance_report"
  /\ resp'.type = "response"
  /\ resp'.data.status = "success"
  /\ resp'.arg.compliance_type = resp.arg.compliance_type

\* C32: a report counts the evaluations of its framework run in the period:
\* the report asked for right after an evaluation of the same framework has
\* that evaluation among its total_checks, and among its passed_checks when
\* the evaluation was compliant.
C32_ReportCountsEvaluations ==
  [][ReportAfterEvaluation =>
       /\ resp'.data.summary.total_checks >= 1
       /\ resp.data.overall_status = "compliant"
            => resp'.data.summary.passed_checks >= 1]_vars


\* C33: in a verify_range report, the chain result of every entry after the
\* first that carries one is false exactly when the entry's previous_hash
\* differs from the stored hash of the entry immediately before it in the
\* range, also when that entry has an empty signature.
C33_ChainComparesNeighbours ==
  RangeReport =>
    LET logs == SortBySequence(RangeLogs(resp.arg, <<now>>))
        details == resp.data.verification_details
    IN  \A k \in 2..Len(details) :
          "chain_valid" \in DOMAIN details[k] =>
            (~details[k].chain_valid <=> Get(logs[k].previous_hash) # logs[k - 1].hash)


\* C34: within the first process lifetime (the counter started from an empty
\* ledger, without the timestamp fallback) the persisted sequences are
\* gap-free: consecutive persisted entries have consecutive sequences,
\* whatever compliance checks, reports, purges or failed writes happened in
\* between.
C34_PersistedSequencesGapFree ==
  restarts = 0 =>
    LET entries == SelectSeq(file, LAMBDA l : l.kind = "entry")
    IN  \A i \in 1..(Len(entries) - 1) :
          entries[i + 1].sequence = entries[i].sequence + 1


\* C35: every entry for which log_action reported success occupies its own
\* parseable line of the ledger file (where verify_range and the file-based
\* query find it), also when the file ended in a partial line without a
\* newline before the append.
C35_AcknowledgedEntryOnOwnLine ==
  \A log_id \in acked :
     \E i \in 1..Len(file) : IsEntry(i) /\ file[i].log_id = log_id


\* SpecKeys: logging and verification across re-instantiations, with key
\* files that get lost or damaged between two runs
MaxKeyCreated == 2
MaxKeyRestarts == 2

KLogAction ==
  /\ uuid_count < MaxKeyCreated
  /\ LogAction(LogParams(RequiredLogFields, "doc_parse", DetailsEmpty), TRUE, "ok")

\* a key file is deleted, or its content is no longer PEM
DamageKeyFile(which, content) ==
  /\ key_files[which] # content
  /\ key_files' = [key_files EXCEPT ![which] = content]
  /\ resp' = [op |-> "key_damage", arg |-> which, type |-> "none"]
  /\ UNCHANGED <<ledger, now, uuid_count, logged, acked, mutated, restarts, foreign_writes, threads, router, handler_calls>>

KDamageKeyFile ==
  \E which \in {"private", "public"}, content \in {Absent, Unloadable} :
     /\ restarts < MaxKeyRestarts
     /\ Loads(key_files[which])
     /\ DamageKeyFile(which, content)

KRestart == restarts < MaxKeyRestarts /\ Reinstantiate

NextKeys ==
  \/ KLogAction
  \/ KDamageKeyFile
  \/ KRestart
  \/ DoVerifyEntry

SpecKeys == Init /\ [][NextKeys]_vars

\* both key files exist and load
KeyFilesUsable ==
  /\ Loads(key_files.private)
  /\ Loads(key_files.public)

\* the entries of the file that carry a signature of the instance's keypair
SignedByInstance ==
  {i \in 1..Len(file) : IsEntry(i) /\ VerifySignature(file[i].hash, file[i].signature)}

\* C36: a construction over two key files that exist and load keeps the
\* keypair, so every entry whose signature verified before still verifies;
\* a construction over a missing or unloadable key file generates a new
\* keypair, and no entry signed with the previous key verifies any more.
C36_KeypairKeptUnlessUnusable ==
  [][resp'.op = "init" =>
       /\ KeyFilesUsable =>
            /\ key_id' = key_id
            /\ key_files' = key_files
            /\ \A i \in SignedByInstance :
                 VerifySignature(file[i].hash, file[i].signature)'
       /\ ~KeyFilesUsable =>
            /\ key_id' # key_id
            /\ key_files' = WrittenKeyFiles(key_id')
            /\ \A i \in SignedByInstance :
                 ~VerifySignature(file[i].hash, file[i].signature)']_vars

\* C36, witness: after one construction that kept the keypair and one that
\* generated a new one, verify_entry reports an untouched entry of the first
\* keypair with hash_matches and without signature_valid
C36_Witness ==
  /\ restarts = 2
  /\ key_id = 2
  /\ resp.op = "verify_entry"
  /\ resp.type = "response"
  /\ "signature_valid" \in DOMAIN resp.data
  /\ resp.data.hash_matches
  /\ ~resp.data.signature_valid


\* SpecCache: _add_to_cache over caches at and around max_cached_logs.  An
\* entry is represented by its log_id alone (the function does not look at
\* it); Init draws the cache a run of n successful log_action calls leaves,
\* and only audit_logs, logged and uuid_count take part.
MaxCachePrefillGap == 2
MaxCacheCalls == 5

CachePrefills == {0} \cup ((max_cached_logs - MaxCachePrefillGap)..max_cached_logs)

CacheItem(n) == [log_id |-> n]

InitCache ==
  /\ \E n \in CachePrefills :
       /\ audit_logs = [i \in 1..n |-> CacheItem(i)]
       /\ logged = audit_logs
       /\ uuid_count = n
  /\ file = <<>>
  /\ file_nl = TRUE
  /\ sequence_counter = 0
  /\ key_id = 1
  /\ now = 1
  /\ resp = [op |-> "init", arg |-> 0, type |-> "none"]
  /\ acked = {}
  /\ mutated = {}
  /\ restarts = 0
  /\ foreign_writes = 0
  /\ threads = [t \in Threads |-> IdleThread]
  /\ key_files = WrittenKeyFiles(1)
  /\ router = NewRouter
  /\ handler_calls = <<>>

\* the call may still create an entry
CacheCallAllowed ==
  \/ uuid_count < MaxCacheCalls
  \/ /\ uuid_count >= max_cached_logs - MaxCachePrefillGap
     /\ uuid_count < max_cached_logs + MaxCacheCalls

\* handle_log_action, the write succeeded: the entry goes into the cache
CacheLogged ==
  /\ CacheCallAllowed
  /\ uuid_count' = uuid_count + 1
  /\ audit_logs' = AddToCache(audit_logs, CacheItem(uuid_count + 1))
  /\ logged' = Append(logged, CacheItem(uuid_count + 1))
  /\ resp' = Response("log_action", "", [log_id |-> uuid_count + 1, status |-> "logged"])
  /\ UNCHANGED <<file, file_nl, sequence_counter, key_id, now, acked, mutated, restarts,
                 foreign_writes, threads, key_files, router, handler_calls>>

\* handle_log_action, the write raised: the cache is not touched
CacheNotLogged ==
  /\ CacheCallAllowed
  /\ uuid_count' = uuid_count + 1
  /\ resp' = ErrorResponse("log_action", "", "processing_error")
  /\ UNCHANGED <<ledger, now, logged, acked, mutated, restarts, foreign_writes, threads, key_files, router, handler_calls>>

NextCache ==
  \/ CacheLogged
  \/ CacheNotLogged

SpecCache == InitCache /\ [][NextCache]_vars

\* C37: after any sequence of log_action calls the cache holds at most
\* max_cached_logs entries, and they are the most recent entries this
\* instance persisted, in the order they were inserted (the oldest are
\* evicted first).
C37_CacheHoldsMostRecent ==
  LET kept == Min(Len(logged), max_cached_logs) IN
  /\ Len(audit_logs) <= max_cached_logs
  /\ audit_logs = SubSeq(logged, Len(logged) - kept + 1, Len(logged))

\* C37, witness: more entries were logged than the cache holds, and the
\* oldest ones are no longer in it
C37_Witness ==
  /\ Len(logged) > max_cached_logs + 1
  /\ Len(audit_logs) = max_cached_logs
  /\ audit_logs[1] = logged[Len(logged) - max_cached_logs + 1]
  /\ resp.op = "log_action"
  /\ resp.type = "response"


(***************************************************************************)
(* The orchestration router (src/utils/orchestrator_router.py).  A handler *)
(* is a callback: it returns a well-formed response, returns a message     *)
(* validate_message rejects, or raises.                                    *)
(***************************************************************************)
Orchestrators == {"audit-orchestrator", "missing-orchestrator"}
Tasks == {"test_task", ""}
HandlerOutcomes == {"response", "invalid", "raise"}

\* create_request_message
CreateRequestMessage(origin, destination, task) ==
  [request_id |-> "request", message_type |-> "request", origin |-> origin,
   destination |-> destination, task |-> task, response_to |-> ""]

\* validate_message: the required fields are set, and a response or an error
\* names the request it answers
ValidateMessage(message) ==
  /\ message.request_id # ""
  /\ message.origin # ""
  /\ message.destination # ""
  /\ message.task # ""
  /\ message.message_type \in {"response", "error"} => message.response_to # ""

\* _create_error_response
CreateErrorResponse(message, error_code) ==
  [request_id |-> "error", message_type |-> "error", origin |-> "router",
   destination |-> message.origin, task |-> message.task,
   response_to |-> message.request_id, error_code |-> error_code]

OrchestratorHandler(orchestrator_id) == [kind |-> "orchestrator", id |-> orchestrator_id]
FallbackHandler(orchestrator_id) == [kind |-> "fallback", id |-> orchestrator_id]
GlobalFallback == [kind |-> "global_fallback", id |-> ""]

\* handler(message), recorded
Call(handler, message) == [handler |-> handler, message |-> message]

\* the message a handler returns
HandlerResponse(handler, message, outcome) ==
  [request_id |-> "response", message_type |-> "response", origin |-> handler.kind,
   destination |-> message.origin, task |-> message.task,
   response_to |-> IF outcome = "response" THEN message.request_id ELSE "",
   by |-> handler]

Returned(message, calls) == [returned |-> message, calls |-> calls]
Raised(calls) == [raised |-> TRUE, calls |-> calls]

\* mutant of SendMessage: for a missing destination the global fallback is
\* tried before the fallback of the destination
SendMessageGlobalFirst(r, message, outcome) ==
  LET destination == message.destination
      fallback == FallbackHandler(destination)
  IN  IF ~ValidateMessage(message)
      THEN Returned(CreateErrorResponse(message, "validation_error"), <<>>)
      ELSE IF r.global_fallback
      THEN IF outcome.global_fallback = "raise"
           THEN Raised(<<Call(GlobalFallback, message)>>)
           ELSE Returned(HandlerResponse(GlobalFallback, message, outcome.global_fallback),
                         <<Call(GlobalFallback, message)>>)
      ELSE IF destination \in r.fallback_handlers
      THEN IF outcome.fallback = "raise"
           THEN Raised(<<Call(fallback, message)>>)
           ELSE Returned(HandlerResponse(fallback, message, outcome.fallback),
                         <<Call(fallback, message)>>)
      ELSE Returned(CreateErrorResponse(message, "orchestrator_unavailable"), <<>>)

\* OrchestrationRouter.send_message: what it returns or raises, and the
\* handlers it calls on the way
SendMessage(r, message, outcome) ==
  LET destination == message.destination
      handler == OrchestratorHandler(destination)
      fallback == FallbackHandler(destination)
  IN  IF ~ValidateMessage(message)
      THEN Returned(CreateErrorResponse(message, "validation_error"), <<>>)
      ELSE IF destination \notin r.orchestrators
      THEN IF destination \in r.fallback_handlers
           THEN IF outcome.fallback = "raise"
                THEN Raised(<<Call(fallback, message)>>)
                ELSE Returned(HandlerResponse(fallback, message, outcome.fallback),
                              <<Call(fallback, message)>>)
           ELSE IF r.global_fallback
           THEN IF outcome.global_fallback = "raise"
                THEN Raised(<<Call(GlobalFallback, message)>>)
                ELSE Returned(HandlerResponse(GlobalFallback, message, outcome.global_fallback),
                              <<Call(GlobalFallback, message)>>)
           ELSE Returned(CreateErrorResponse(message, "orchestrator_unavailable"), <<>>)
      ELSE IF outcome.orchestrator = "response"
      THEN Returned(HandlerResponse(handler, message, "response"), <<Call(handler, message)>>)
      ELSE IF outcome.orchestrator = "invalid"
      THEN Returned(CreateErrorResponse(message, "validation_error"), <<Call(handler, message)>>)
      ELSE \* the handler raised
           LET tried == IF destination \in r.fallback_handlers
                        THEN <<Call(handler, message), Call(fallback, message)>>
                        ELSE <<Call(handler, message)>>
           IN  IF destination \in r.fallback_handlers /\ outcome.fallback # "raise"
               THEN Returned(HandlerResponse(fallback, message, outcome.fallback), tried)
               ELSE IF r.global_fallback /\ outcome.global_fallback # "raise"
               THEN Returned(HandlerResponse(GlobalFallback, message, outcome.global_fallback),
                             Append(tried, Call(GlobalFallback, message)))
               ELSE Returned(CreateErrorResponse(message, "processing_error"),
                             IF r.global_fallback
                             THEN Append(tried, Call(GlobalFallback, message))
                             ELSE tried)

\* register_orchestrator
RegisterOrchestrator(orchestrator_id) ==
  /\ router' = [router EXCEPT !.orchestrators = @ \cup {orchestrator_id}]
  /\ resp' = [op |-> "register_orchestrator", arg |-> orchestrator_id, type |-> "none"]
  /\ UNCHANGED <<ledger, now, uuid_count, logged, acked, mutated, restarts, foreign_writes,
                 threads, key_files, handler_calls>>

\* register_fallback_handler
RegisterFallbackHandler(orchestrator_id) ==
  /\ router' = [router EXCEPT !.fallback_handlers = @ \cup {orchestrator_id}]
  /\ resp' = [op |-> "register_fallback_handler", arg |-> orchestrator_id, type |-> "none"]
  /\ UNCHANGED <<ledger, now, uuid_count, logged, acked, mutated, restarts, foreign_writes,
                 threads, key_files, handler_calls>>

\* register_global_fallback
RegisterGlobalFallback ==
  /\ router' = [router EXCEPT !.global_fallback = TRUE]
  /\ resp' = [op |-> "register_global_fallback", arg |-> "", type |-> "none"]
  /\ UNCHANGED <<ledger, now, uuid_count, logged, acked, mutated, restarts, foreign_writes,
                 threads, key_files, handler_calls>>

\* send_message of the module: the call on the singleton router
SendMessageTo(destination, task, outcome) ==
  LET message == CreateRequestMessage("caller", destination, task)
      out == SendMessage(router, message, outcome)
  IN  /\ handler_calls' = out.calls
      /\ resp' = IF "raised" \in DOMAIN out
                 THEN [op |-> "send_message", arg |-> message, type |-> "raised"]
                 ELSE [op |-> "send_message", arg |-> message,
                       type |-> out.returned.message_type, data |-> out.returned]
      /\ UNCHANGED <<ledger, now, uuid_count, logged, acked, mutated, restarts, foreign_writes,
                     threads, key_files, router>>

\* SpecRouter: registrations and messages in any order
DoRegisterOrchestrator == \E id \in Orchestrators : RegisterOrchestrator(id)
DoRegisterFallbackHandler == \E id \in Orchestrators : RegisterFallbackHandler(id)
DoSendMessage ==
  \E destination \in Orchestrators, task \in Tasks,
     outcome \in [orchestrator : HandlerOutcomes, fallback : HandlerOutcomes,
                  global_fallback : HandlerOutcomes] :
     SendMessageTo(destination, task, outcome)

NextRouter ==
  \/ DoRegisterOrchestrator
  \/ DoRegisterFallbackHandler
  \/ RegisterGlobalFallback
  \/ DoSendMessage

SpecRouter == Init /\ [][NextRouter]_vars

\* what the claim says about the message that was just sent: the fallback of
\* the destination, else the global fallback, is the one handler called, once,
\* with the message, and what it returns is returned; with neither, the
\* router answers the origin with ORCHESTRATOR_UNAVAILABLE
RoutedToFallback ==
  LET message == resp.arg
      only == IF message.destination \in router.fallback_handlers
              THEN FallbackHandler(message.destination)
              ELSE GlobalFallback
  IN  IF message.destination \in router.fallback_handlers \/ router.global_fallback
      THEN /\ handler_calls = <<Call(only, message)>>
           /\ resp.type # "raised" => resp.data.by = only
      ELSE /\ handler_calls = <<>>
           /\ resp.type = "error"
           /\ resp.data.error_code = "orchestrator_unavailable"
           /\ resp.data.origin = "router"
           /\ resp.data.destination = message.origin

\* a message was sent to a destination that is not registered
SentToMissing ==
  /\ resp.op = "send_message"
  /\ resp.arg.destination \notin router.orchestrators

\* C38 as stated: for every message sent to a destination that is not
\* registered, the destination's fallback handler is called exactly once and
\* its response returned, else the global fallback, else an
\* ORCHESTRATOR_UNAVAILABLE error addressed to the origin is returned.
C38_MissingDestinationFallsBack == SentToMissing => RoutedToFallback

\* C38, amended: the same for every message that passes validate_message; a
\* message validate_message rejects is answered with VALIDATION_ERROR and no
\* handler is called.
C38_ValidMessageFallsBack ==
  SentToMissing =>
    IF ValidateMessage(resp.arg)
    THEN RoutedToFallback
    ELSE /\ handler_calls = <<>>
         /\ resp.type = "error"
         /\ resp.data.error_code = "validation_error"

\* C38, witness: both fallbacks are registered, and the message to the
\* missing destination was answered by the destination's own fallback
C38_Witness ==
  /\ SentToMissing
  /\ ValidateMessage(resp.arg)
  /\ resp.arg.destination \in router.fallback_handlers
  /\ router.global_fallback
  /\ resp.type = "response"
  /\ resp.data.by = FallbackHandler(resp.arg.destination)
  /\ Len(handler_calls) = 1

====
